---- MODULE Spec2Model ----
(***************************************************************************)
(* Model of the geometric compositor of synthetic-dataset-creator:         *)
(* image_processing/composition.py (placement engine and alpha blend),     *)
(* image_processing/transformations.py (geometric transform) and           *)
(* utils/annotations.py (coverage tests).                                  *)
(*                                                                         *)
(* Numbers.  Pixel sizes and offsets are integers, as in the code.  Box    *)
(* coordinates after a transform are floats in the code; here they are     *)
(* exact rationals carried as integers in units of 1/Q pixel.  Fractions   *)
(* of the canvas (label_base_percent) are in thousandths, the variation    *)
(* factor in tenths, the scale factor in 1/SfDen.                          *)
(***************************************************************************)
EXTENDS Integers, Sequences, FiniteSets, TLC

VARIABLES
    cards,              \* the sprite pool (load_card_images' result)
    backgrounds,        \* the background pool (load_backgrounds' result)
    background,         \* the canvas: this image's copy of a pool background
    label_base_percent, \* label -> target fraction of the canvas, in thousandths
    placed_boxes,       \* boxes recorded by accepted placements of this image
    objects,            \* the list place_cards_on_background returns
    pc,                 \* position in generate_synthetic_image / place_cards_on_background
    random_base_percent,\* the fraction that selected the card-count range
    count_hi,           \* upper end of the range num_cards was drawn from
    num_cards,          \* number of iterations of the per-card loop
    card_index,         \* iterations of the per-card loop completed
    base_percent,       \* fraction used to size the current card, in thousandths
    desired_area,       \* the current card's desired area, in 1/10000 square pixel
    variation,          \* the current card's variation factor, in tenths
    scale_factor,       \* the current card's scale factor, in 1/SfDen
    transformed,        \* the current card after apply_transformations
    attempt,            \* iterations of the attempt loop completed for this card
    x_off, y_off,       \* the offset drawn by the latest attempt
    outcome,            \* history: what the latest attempt did
    prev_placed,        \* history: placed_boxes as the latest attempt found it
    total_attempts,     \* history: offsets drawn in this image
    blends,             \* history: calls of overlay_card in this image
    footprints,         \* history: full_box of each blend of this image, with
                        \* the length of placed_boxes it found
    diagnostics,        \* messages printed so far
    call,               \* harness: the pure function applied and its arguments
    ret,                \* harness: its result, or Pending
    gd_pc,              \* position in generate_dataset
    image_index,        \* generate_dataset: images generated so far in this run
    files,              \* generate_dataset: the image and label files written, in order
    manifest            \* generate_dataset: number of times data.yaml was written

placeVars == <<cards, backgrounds, background, label_base_percent, placed_boxes,
               objects, pc, random_base_percent, count_hi, num_cards, card_index,
               base_percent, desired_area, variation, scale_factor, transformed, attempt,
               x_off, y_off, outcome, prev_placed, total_attempts, blends, footprints,
               diagnostics>>

harnessVars == <<call, ret>>

datasetVars == <<gd_pc, image_index, files, manifest>>

vars == <<placeVars, harnessVars, datasetVars>>

\* ret is <<>> before the call and <<value>> after it
Pending == <<>>

(***************************************************************************)
(* Small arithmetic helpers.                                               *)
(***************************************************************************)
Max(a, b) == IF a >= b THEN a ELSE b
Min(a, b) == IF a <= b THEN a ELSE b

(***************************************************************************)
(* utils/annotations.py                                                    *)
(***************************************************************************)
\* max_coverage_ratio = 0.4, as the fraction <<2, 5>>
MaxCoverageRatio == <<2, 5>>

\* the local area(box) of check_overlap and of check_image_coverage
area(box) == Max(0, box[3] - box[1]) * Max(0, box[4] - box[2])

\* (the largest single intersection where the code has the sum)
RECURSIVE CoveredByLargest(_, _, _, _)
CoveredByLargest(eb, new_boxes, k, covered) ==
    IF k > Len(new_boxes) THEN covered
    ELSE LET nb == new_boxes[k]
             w == Min(eb[3], nb[3]) - Max(eb[1], nb[1])
             h == Min(eb[4], nb[4]) - Max(eb[2], nb[2])
         IN  IF w > 0 /\ h > 0
             THEN CoveredByLargest(eb, new_boxes, k + 1, Max(covered, w * h))
             ELSE CoveredByLargest(eb, new_boxes, k + 1, covered)

\* the inner loop of check_overlap over new_boxes[k..]: the running sum covered
RECURSIVE CoveredBy(_, _, _, _)
CoveredBy(eb, new_boxes, k, covered) ==
    IF k > Len(new_boxes) THEN covered
    ELSE LET nb == new_boxes[k]
             xi_min == Max(eb[1], nb[1])
             yi_min == Max(eb[2], nb[2])
             xi_max == Min(eb[3], nb[3])
             yi_max == Min(eb[4], nb[4])
             inter == (xi_max - xi_min) * (yi_max - yi_min)
         IN  IF xi_min < xi_max /\ yi_min < yi_max
             THEN CoveredBy(eb, new_boxes, k + 1, covered + inter)
             ELSE CoveredBy(eb, new_boxes, k + 1, covered)

\* (a comparison with >= where the code has >)
ExceedsRatioInclusive(covered, eb_area) ==
    covered * MaxCoverageRatio[2] >= MaxCoverageRatio[1] * eb_area

\* covered / eb_area > max_coverage_ratio, on exact rationals
ExceedsRatio(covered, eb_area) ==
    covered * MaxCoverageRatio[2] > MaxCoverageRatio[1] * eb_area

\* the outer loop of check_overlap over existing_boxes[i..]
RECURSIVE CheckOverlapFrom(_, _, _)
CheckOverlapFrom(new_boxes, existing_boxes, i) ==
    IF i > Len(existing_boxes) THEN FALSE
    ELSE LET eb == existing_boxes[i]
             eb_area == area(eb)
         IN  IF eb_area <= 0
             THEN CheckOverlapFrom(new_boxes, existing_boxes, i + 1)
             ELSE IF ExceedsRatio(CoveredBy(eb, new_boxes, 1, 0), eb_area)
                  THEN TRUE
                  ELSE CheckOverlapFrom(new_boxes, existing_boxes, i + 1)

\* check_overlap testing coverage in both directions
check_overlap_symmetric(new_boxes, existing_boxes) ==
    \/ CheckOverlapFrom(new_boxes, existing_boxes, 1)
    \/ CheckOverlapFrom(existing_boxes, new_boxes, 1)

check_overlap(new_boxes, existing_boxes) ==
    CheckOverlapFrom(new_boxes, existing_boxes, 1)

\* the loop of check_image_coverage over existing_boxes[i..]
RECURSIVE CheckImageCoverageFrom(_, _, _)
CheckImageCoverageFrom(image_box, existing_boxes, i) ==
    IF i > Len(existing_boxes) THEN FALSE
    ELSE LET eb == existing_boxes[i]
             xa == Max(image_box[1], eb[1])
             ya == Max(image_box[2], eb[2])
             xb == Min(image_box[3], eb[3])
             yb == Min(image_box[4], eb[4])
             inter == (xb - xa) * (yb - ya)
         IN  IF xa < xb /\ ya < yb /\ ExceedsRatio(inter, area(eb))
             THEN TRUE
             ELSE CheckImageCoverageFrom(image_box, existing_boxes, i + 1)

\* the mutant of check_image_coverage: the footprint is never tested
check_image_coverage_skipped(image_box, existing_boxes) == FALSE

check_image_coverage(image_box, existing_boxes) ==
    CheckImageCoverageFrom(image_box, existing_boxes, 1)

(***************************************************************************)
(* Pixel buffers.  A buffer is [h, w, ch, px]: px maps <<row, col>>        *)
(* (1-based) to a pixel.  The three colour channels are treated alike by   *)
(* the code (one loop body for c in range(3)); the model carries one       *)
(* colour value v per pixel: <<v>> for a 3-channel buffer, <<v, a>> for a  *)
(* 4-channel buffer with alpha a.                                          *)
(***************************************************************************)
UniformImage(h, w, pixel) ==
    [h |-> h, w |-> w, ch |-> Len(pixel) + 2,
     px |-> [rc \in (1..h) \X (1..w) |-> pixel]]

(***************************************************************************)
(* image_processing/transformations.py                                     *)
(***************************************************************************)
\* resolution of the scale factor
SfDen == 100
\* resolution of transformed box coordinates: 1/Q pixel.  Q = 2 * 5 * SfDen
\* makes scaling by k/SfDen, the half-pixel centres and a rotation whose
\* cosine and sine are multiples of 1/5 exact.
Q == 1000

CeilDiv(a, b) == -((-a) \div b)

\* floor of the square root
RECURSIVE ISqrtBetween(_, _, _)
ISqrtBetween(n, lo, hi) ==
    IF lo >= hi THEN lo
    ELSE LET mid == (lo + hi + 1) \div 2
         IN  IF mid * mid <= n THEN ISqrtBetween(n, mid, hi)
             ELSE ISqrtBetween(n, lo, mid - 1)

ISqrt(n) == ISqrtBetween(n, 0, Min(n, 30000))

\* An angle is <<c, s>> with cos = c/5 and sin = s/5.
Angle0 == <<5, 0>>
Angle90 == <<0, 5>>
Angle180 == <<-5, 0>>
Angle270 == <<0, -5>>
\* arccos(3/5), about 53.13 degrees
Angle345 == <<3, 4>>

Abs(a) == IF a >= 0 THEN a ELSE -a

\* size of pil_img.rotate(angle, expand=True) of a w x h image: the image is
\* copied or transposed for 0, 90, 180, 270 degrees; otherwise the new size is
\* ceil(max) - floor(min) of the rotated corners about the centre (w/2, h/2).
RotatedSize(w, h, angle) ==
    IF angle \in {Angle0, Angle180} THEN <<w, h>>
    ELSE IF angle \in {Angle90, Angle270} THEN <<h, w>>
    ELSE LET rx == Abs(angle[1]) * w + Abs(angle[2]) * h   \* 10 * half extent in x
             ry == Abs(angle[2]) * w + Abs(angle[1]) * h
         IN  <<CeilDiv(5 * w + rx, 10) - ((5 * w - rx) \div 10),
               CeilDiv(5 * h + ry, 10) - ((5 * h - ry) \div 10)>>

\* the scale and the rotation with the cosine and the sine exchanged
RotateBoxSwapped(bbox, card, sf, angle, dx, dy) ==
    LET k == Q \div SfDen
        cx == (card.width * sf * k) \div 2
        cy == (card.height * sf * k) \div 2
        X(x) == x * sf * k
        px(x, y) == cx + (angle[2] * (X(x) - cx) + angle[1] * (X(y) - cy)) \div 5 + dx
        py(x, y) == cy + (angle[2] * (X(y) - cy) - angle[1] * (X(x) - cx)) \div 5 + dy
        corners == {<<bbox.xmin, bbox.ymin>>, <<bbox.xmax, bbox.ymin>>,
                    <<bbox.xmin, bbox.ymax>>, <<bbox.xmax, bbox.ymax>>}
        xs == {px(c[1], c[2]) : c \in corners}
        ys == {py(c[1], c[2]) : c \in corners}
        SetMin(S) == CHOOSE m \in S : \A o \in S : m <= o
        SetMax(S) == CHOOSE m \in S : \A o \in S : m >= o
    IN  [label |-> bbox.label,
         xmin |-> SetMin(xs), ymin |-> SetMin(ys),
         xmax |-> SetMax(xs), ymax |-> SetMax(ys)]

\* One bounding box through the scale and the rotation: the four corners are
\* multiplied by combined_matrix, shifted by (dx, dy), and their min/max taken.
\* Coordinates in, pixels; coordinates out, 1/Q pixel.
RotateBox(bbox, card, sf, angle, dx, dy) ==
    LET k == Q \div SfDen
        cx == (card.width * sf * k) \div 2      \* center_x * scale_factor
        cy == (card.height * sf * k) \div 2
        X(x) == x * sf * k
        px(x, y) == cx + (angle[1] * (X(x) - cx) + angle[2] * (X(y) - cy)) \div 5 + dx
        py(x, y) == cy + (angle[1] * (X(y) - cy) - angle[2] * (X(x) - cx)) \div 5 + dy
        corners == {<<bbox.xmin, bbox.ymin>>, <<bbox.xmax, bbox.ymin>>,
                    <<bbox.xmin, bbox.ymax>>, <<bbox.xmax, bbox.ymax>>}
        xs == {px(c[1], c[2]) : c \in corners}
        ys == {py(c[1], c[2]) : c \in corners}
        SetMin(S) == CHOOSE m \in S : \A o \in S : m <= o
        SetMax(S) == CHOOSE m \in S : \A o \in S : m >= o
    IN  [label |-> bbox.label,
         xmin |-> SetMin(xs), ymin |-> SetMin(ys),
         xmax |-> SetMax(xs), ymax |-> SetMax(ys)]

\* A warp is [on, tx, ty], tx and ty in 1/Q pixel.  apply_perspective_transform
\* displaces the four corners of the w x h image independently, each by at most
\* max_offset/2 = min(w, h) * intensity / 2 with intensity in [0.05, 0.5]; the
\* model draws the outcomes in which the four displacements are the same
\* (tx, ty), for which the projective matrix M is that translation.
NoWarp == [on |-> FALSE, tx |-> 0, ty |-> 0]

WarpPossible(warp, w, h) ==
    warp.on => /\ 4 * Abs(warp.tx) <= Min(w, h) * Q
               /\ 4 * Abs(warp.ty) <= Min(w, h) * Q

\* the perspective branch on one box: M applied to the four corners, min/max
WarpBox(bbox, warp) ==
    IF warp.on
    THEN [label |-> bbox.label,
          xmin |-> bbox.xmin + warp.tx, ymin |-> bbox.ymin + warp.ty,
          xmax |-> bbox.xmax + warp.tx, ymax |-> bbox.ymax + warp.ty]
    ELSE bbox

\* apply_transformations(card, scale_factor) with the random draws angle and
\* warp as arguments.  The resampled pixel values (LANCZOS, BICUBIC, colour
\* jitter) are not modelled: the new buffer is filled with the sprite's first
\* pixel.  The result is a new record; card is not changed.
apply_transformations(card, sf, angle, warp) ==
    LET new_width == (card.width * sf) \div SfDen
        new_height == (card.height * sf) \div SfDen
        size == RotatedSize(new_width, new_height, angle)
        dx == ((size[1] - new_width) * Q) \div 2
        dy == ((size[2] - new_height) * Q) \div 2
        rotated == [i \in 1..Len(card.bounding_boxes) |->
                       RotateBox(card.bounding_boxes[i], card, sf, angle, dx, dy)]
        transformed_img == UniformImage(size[2], size[1], card.image.px[<<1, 1>>])
    IN  [image |-> transformed_img,
         label |-> card.label,
         width |-> transformed_img.w,
         height |-> transformed_img.h,
         original_angle |-> angle,
         bounding_boxes |-> [i \in 1..Len(rotated) |-> WarpBox(rotated[i], warp)]]

\* transformed_bbox = bbox, without the copy: the writes of the new
\* coordinates land in the input's box
InputBoxAfterWritesAliased(bbox, written) == written

\* transformed_bbox = bbox.copy(): the new coordinates are written to the
\* copy, and the input's box is as it was
InputBoxAfterWrites(bbox, written) == bbox

\* The input card after apply_transformations(card, scale_factor): img is a
\* copy of its buffer, new_card is card.copy() with its keys rebound, and each
\* box of the scale-and-rotation loop is written through InputBoxAfterWrites.
CardAfterTransformations(card, sf, angle, warp) ==
    LET rotated == apply_transformations(card, sf, angle, NoWarp).bounding_boxes
    IN  [card EXCEPT !.bounding_boxes =
            [i \in 1..Len(card.bounding_boxes) |->
                InputBoxAfterWrites(card.bounding_boxes[i], rotated[i])]]

(***************************************************************************)
(* image_processing/composition.py: overlay_card                           *)
(***************************************************************************)
\* the blend with the two weights exchanged
BlendSwapped(bg, fg, a) == (bg * a + fg * (255 - a)) \div 255

\* roi[:, :, c] * (1 - alpha) + card_rgb[:, :, c] * alpha with alpha = a / 255,
\* stored back into the 8-bit buffer (the fraction is dropped)
Blend(bg, fg, a) == (bg * (255 - a) + fg * a) \div 255

\* an offset that is only clamped to >= 0
AdjustOffsetClampOnly(offset, card_len, bg_len) == Max(0, offset)

\* one coordinate of the offset: moved back to bg_len - card_len when the card
\* would pass the far edge, then clamped to >= 0
AdjustOffset(offset, card_len, bg_len) ==
    Max(0, IF offset + card_len > bg_len THEN bg_len - card_len ELSE offset)

\* overlay_card(background, card, position): the canvas after the call and the
\* four lists returned.  Box coordinates are in 1/Q pixel, offsets in pixels.
overlay_card(bg, card, position) ==
    LET card_img == card.image
        x_offset == AdjustOffset(position[1], card_img.w, bg.w)
        y_offset == AdjustOffset(position[2], card_img.h, bg.h)
        \* the shape of roi = background[y_offset:y_offset+card_h, x_offset:x_offset+card_w]
        roi_h == Max(0, Min(bg.h, y_offset + card_img.h) - y_offset)
        roi_w == Max(0, Min(bg.w, x_offset + card_img.w) - x_offset)
        \* the card cropped to the roi
        card_h == Min(card_img.h, roi_h)
        card_w == Min(card_img.w, roi_w)
        inside(r, c) == /\ y_offset < r /\ r <= y_offset + card_h
                        /\ x_offset < c /\ c <= x_offset + card_w
        src(r, c) == card_img.px[<<r - y_offset, c - x_offset>>]
        out(r, c) == IF card_img.ch = 4
                     THEN <<Blend(bg.px[<<r, c>>][1], src(r, c)[1], src(r, c)[2])>>
                     ELSE <<src(r, c)[1]>>
        n == Len(card.bounding_boxes)
    IN  IF card_img.h = 0 \/ card_img.w = 0
        THEN [background |-> bg, empty |-> TRUE,
              xmin_list |-> <<>>, ymin_list |-> <<>>, xmax_list |-> <<>>, ymax_list |-> <<>>,
              x_offset |-> 0, y_offset |-> 0, card_w |-> 0, card_h |-> 0]
        ELSE [background |->
                  [bg EXCEPT !.px = [rc \in DOMAIN bg.px |->
                      IF inside(rc[1], rc[2]) THEN out(rc[1], rc[2]) ELSE bg.px[rc]]],
              empty |-> FALSE,
              xmin_list |-> [i \in 1..n |-> card.bounding_boxes[i].xmin + x_offset * Q],
              ymin_list |-> [i \in 1..n |-> card.bounding_boxes[i].ymin + y_offset * Q],
              xmax_list |-> [i \in 1..n |-> card.bounding_boxes[i].xmax + x_offset * Q],
              ymax_list |-> [i \in 1..n |-> card.bounding_boxes[i].ymax + y_offset * Q],
              \* not returned by the code: where the pixels were written
              x_offset |-> x_offset, y_offset |-> y_offset,
              card_w |-> card_w, card_h |-> card_h]

(***************************************************************************)
(* image_processing/composition.py: generate_label_base_percents           *)
(***************************************************************************)
\* The fractions the three uniform draws can give, in thousandths:
\* [0.017, 0.20], [0.020, 0.4] and [0.4, 1].
PercentRange == 17..1000

\* the fractions the model draws
PercentDraws == {160, 1000}

CardLabels(pool) == {pool[i].label : i \in 1..Len(pool)}

\* every mapping generate_label_base_percents(cards) can return, over ps
generate_label_base_percents(pool, ps) == [CardLabels(pool) -> ps]

(***************************************************************************)
(* image_processing/composition.py: place_cards_on_background              *)
(***************************************************************************)
\* an attempt loop of one iteration too many
AttemptsPerCardPlusOne == 15 + 1

\* attempts_per_card
AttemptsPerCard == 15

\* label_base_percent.get(label, 0.05): the default, in thousandths
DefaultPercent == 50

\* the if/elif chain with >= for >
NumCardsHiInclusive(p) ==
    IF p >= 150 THEN 5
    ELSE IF p >= 100 THEN 7
    ELSE IF p >= 50 THEN 10
    ELSE 12

\* the upper end of the randint range chosen by the if/elif chain on
\* random_base_percent (thousandths)
NumCardsHi(p) ==
    IF p > 150 THEN 5
    ELSE IF p > 100 THEN 7
    ELSE IF p > 50 THEN 10
    ELSE 12

\* base_percent * variation * bg_area, in 1/10000 square pixel
DesiredArea(bp, v, bg_area) == bp * v * bg_area

\* scale_factor, in 1/SfDen (rounded down).  DesiredArea is in 1/10000 =
\* 1/(SfDen * SfDen) square pixel, so desired_area / orig_area is the square of
\* the scale factor in 1/SfDen.
ScaleFactor(card, bp, v, bg_w, bg_h) ==
    LET orig_area == card.width * card.height
        root == IF orig_area > 0
                THEN ISqrt(DesiredArea(bp, v, bg_w * bg_h) \div orig_area)
                ELSE SfDen \div 10
        max_sf_w == (9 * bg_w * SfDen) \div (10 * card.width)    \* max_sf_w * 0.9
        max_sf_h == (9 * bg_h * SfDen) \div (10 * card.height)
    IN  Min(root, Min(max_sf_w, max_sf_h))

\* the mutant of RecordBoxes: every box is recorded, valid or not
RECURSIVE RecordBoxesUnchecked(_, _, _, _, _, _)
RecordBoxesUnchecked(boxes, lists, idx, placed, objs, bg) ==
    IF idx > Len(boxes) THEN [placed_boxes |-> placed, objects |-> objs]
    ELSE LET xb == <<lists.xmin_list[idx], lists.ymin_list[idx],
                     lists.xmax_list[idx], lists.ymax_list[idx]>>
         IN  RecordBoxesUnchecked(boxes, lists, idx + 1,
                 Append(placed, xb),
                 Append(objs, [label |-> boxes[idx].label,
                               xmin |-> Max(0, xb[1]),
                               ymin |-> Max(0, xb[2]),
                               xmax |-> Min(bg.w * Q, xb[3]),
                               ymax |-> Min(bg.h * Q, xb[4])]),
                 bg)

\* the loop "for idx, b in enumerate(transformed['bounding_boxes'])" from idx:
\* the valid boxes are appended to placed_boxes and, clipped, to objects
RECURSIVE RecordBoxes(_, _, _, _, _, _)
RecordBoxes(boxes, lists, idx, placed, objs, bg) ==
    IF idx > Len(boxes) THEN [placed_boxes |-> placed, objects |-> objs]
    ELSE LET xb == <<lists.xmin_list[idx], lists.ymin_list[idx],
                     lists.xmax_list[idx], lists.ymax_list[idx]>>
         IN  IF xb[1] < xb[3] /\ xb[2] < xb[4]
             THEN RecordBoxes(boxes, lists, idx + 1,
                     Append(placed, xb),
                     Append(objs, [label |-> boxes[idx].label,
                                   xmin |-> Max(0, xb[1]),
                                   ymin |-> Max(0, xb[2]),
                                   xmax |-> Min(bg.w * Q, xb[3]),
                                   ymax |-> Min(bg.h * Q, xb[4])]),
                     bg)
             ELSE RecordBoxes(boxes, lists, idx + 1, placed, objs, bg)

(***************************************************************************)
(* The pools and the random draws of the model.                            *)
(***************************************************************************)
\* the canvas of the model (config.TARGET_SIZE is 620 x 620)
BgW == 10
BgH == 10

\* most cards drawn for one image by the model: randint(1, hi) is drawn from
\* 1..Min(hi, MaxCards)
MaxCards == 2

Box(label, xmin, ymin, xmax, ymax) ==
    [label |-> label, xmin |-> xmin, ymin |-> ymin, xmax |-> xmax, ymax |-> ymax]

\* a sprite as load_card_images builds it: an opaque 4-channel buffer of one
\* colour, the label of the file name, the boxes of the annotation file
Card(label, w, h, colour, boxes) ==
    [image |-> UniformImage(h, w, <<colour, 255>>), label |-> label,
     width |-> w, height |-> h, bounding_boxes |-> boxes]

\* two annotated regions, one of them in the top-left corner
CardMaki ==
    Card("maki_roll", 5, 5, 200,
         <<Box("maki_roll", 0, 0, 1, 1), Box("maki_roll", 1, 1, 5, 5)>>)

\* a file named after one class whose only region is annotated as another
CardWasabi ==
    Card("wasabi", 3, 3, 100, <<Box("tempura", 0, 0, 3, 3)>>)

Pool == <<CardMaki, CardWasabi>>

BackgroundPool == <<UniformImage(BgH, BgW, <<10>>)>>

\* the outcomes of (variation, angle, perspective) the model draws
Draw(v, angle, warp) == [variation |-> v, angle |-> angle, warp |-> warp]

TransformDraws ==
    { Draw(10, Angle0, NoWarp),
      Draw(9, Angle90, NoWarp),
      Draw(11, Angle345, NoWarp),
      Draw(10, Angle0, [on |-> TRUE, tx |-> -900, ty |-> -900]) }

\* the outcomes of random.randint(0, hi) the model draws
OffsetDraws(hi) == {0, hi}

\* the same with the middle of the range
OffsetDrawsMid(hi) == {0, hi \div 2, hi}

\* the offsets an attempt draws from 0..hi
OffsetsDrawn(mid, hi) == IF mid THEN OffsetDrawsMid(hi) ELSE OffsetDraws(hi)

(***************************************************************************)
(* dataset/generator.py: generate_synthetic_image, up to the return of     *)
(* place_cards_on_background.                                              *)
(***************************************************************************)
NoCard == [image |-> UniformImage(0, 0, <<0, 0>>), label |-> "", width |-> 0,
           height |-> 0, original_angle |-> Angle0, bounding_boxes |-> <<>>]

NoCall == [fn |-> "none"]

PlaceInit(pool, bgs) ==
    /\ cards = pool
    /\ backgrounds = bgs
    /\ background = UniformImage(0, 0, <<0>>)
    /\ label_base_percent = <<>>
    /\ placed_boxes = <<>>
    /\ objects = <<>>
    /\ pc = "idle"
    /\ random_base_percent = 0
    /\ count_hi = 0
    /\ num_cards = 0
    /\ card_index = 0
    /\ base_percent = 0
    /\ desired_area = 0
    /\ variation = 0
    /\ scale_factor = 0
    /\ transformed = NoCard
    /\ attempt = 0
    /\ x_off = 0
    /\ y_off = 0
    /\ outcome = "none"
    /\ prev_placed = <<>>
    /\ total_attempts = 0
    /\ blends = 0
    /\ footprints = <<>>
    /\ diagnostics = <<>>

\* no run of generate_dataset is in progress
DatasetIdle ==
    /\ gd_pc = "idle"
    /\ image_index = 0
    /\ files = <<>>
    /\ manifest = 0

Init ==
    /\ PlaceInit(Pool, BackgroundPool)
    /\ DatasetIdle
    /\ call = NoCall
    /\ ret = Pending

\* the mutant of PoolBufferAfterWrites: the canvas is the pool's buffer itself
PoolBufferAfterWritesAliased(buffer, canvas, written) ==
    IF buffer = canvas THEN written ELSE buffer

\* a buffer of the background pool after the canvas was written: the canvas
\* is random.choice(backgrounds).copy(), so the write does not reach it
PoolBufferAfterWrites(buffer, canvas, written) == buffer

\* generate_synthetic_image: a copy of a random background, the area targets
StartImageWith(ps) ==
    /\ pc = "idle"
    /\ \E b \in 1..Len(backgrounds) : background' = backgrounds[b]
    /\ label_base_percent' \in generate_label_base_percents(cards, ps)
    /\ pc' = "count"
    /\ UNCHANGED <<cards, backgrounds, placed_boxes, objects, random_base_percent,
                   count_hi, num_cards, card_index, base_percent, desired_area,
                   variation, scale_factor, transformed, attempt, x_off, y_off,
                   outcome, prev_placed, total_attempts, blends, footprints, diagnostics>>
    /\ UNCHANGED <<harnessVars, datasetVars>>

StartImage == StartImageWith(PercentDraws)

\* place_cards_on_background, entry: placed_boxes defaults to a new list, one
\* label is drawn and its fraction selects the range of the card count
ChooseCountUpTo(cap) ==
    /\ pc = "count"
    /\ placed_boxes' = <<>>
    /\ footprints' = <<>>
    /\ objects' = <<>>
    /\ \E random_label \in DOMAIN label_base_percent :
          /\ random_base_percent' = label_base_percent[random_label]
          /\ count_hi' = NumCardsHi(label_base_percent[random_label])
          /\ num_cards' \in 1..Min(NumCardsHi(label_base_percent[random_label]), cap)
    /\ card_index' = 0
    /\ pc' = "card"
    /\ UNCHANGED <<cards, backgrounds, background, label_base_percent, base_percent,
                   desired_area, variation, scale_factor, transformed, attempt,
                   x_off, y_off, outcome, prev_placed, total_attempts, blends,
                   diagnostics>>
    /\ UNCHANGED <<harnessVars, datasetVars>>

ChooseCount == ChooseCountUpTo(MaxCards)

\* the head of the per-card loop: a card is drawn, sized and transformed.
\* (Image.resize raises for a size below 1 x 1; the model draws no such case.)
DrawCardFrom(draws) ==
    /\ pc = "card"
    /\ card_index < num_cards
    /\ \E c \in 1..Len(cards), d \in draws :
          LET card == cards[c]
              label == card.bounding_boxes[1].label
              bp == IF label \in DOMAIN label_base_percent
                    THEN label_base_percent[label] ELSE DefaultPercent
              sf == ScaleFactor(card, bp, d.variation, background.w, background.h)
              size == RotatedSize((card.width * sf) \div SfDen,
                                  (card.height * sf) \div SfDen, d.angle)
          IN  /\ (card.width * sf) \div SfDen >= 1
              /\ (card.height * sf) \div SfDen >= 1
              /\ WarpPossible(d.warp, size[1], size[2])
              /\ base_percent' = bp
              /\ variation' = d.variation
              /\ desired_area' = DesiredArea(bp, d.variation, background.w * background.h)
              /\ scale_factor' = sf
              /\ transformed' = apply_transformations(card, sf, d.angle, d.warp)
              /\ cards' = [cards EXCEPT
                               ![c] = CardAfterTransformations(card, sf, d.angle, d.warp)]
    /\ attempt' = 0
    /\ outcome' = "none"
    /\ pc' = "attempt"
    /\ UNCHANGED <<backgrounds, background, label_base_percent, placed_boxes,
                   objects, random_base_percent, count_hi, num_cards, card_index,
                   x_off, y_off, prev_placed, total_attempts, blends, footprints, diagnostics>>
    /\ UNCHANGED <<harnessVars, datasetVars>>

DrawCard == DrawCardFrom(TransformDraws)

\* one iteration of the attempt loop: an offset is drawn; it is rejected by
\* check_image_coverage or by check_overlap, or the card is blended, its valid
\* boxes recorded, and the loop left
AttemptDrawing(mid) ==
    /\ pc = "attempt"
    /\ attempt < AttemptsPerCard
    /\ \E xo \in OffsetsDrawn(mid, Max(0, background.w - transformed.width)),
          yo \in OffsetsDrawn(mid, Max(0, background.h - transformed.height)) :
          LET boxes == transformed.bounding_boxes
              new_boxes == [i \in 1..Len(boxes) |->
                               <<boxes[i].xmin + xo * Q, boxes[i].ymin + yo * Q,
                                 boxes[i].xmax + xo * Q, boxes[i].ymax + yo * Q>>]
              full_box == <<xo * Q, yo * Q, (xo + transformed.width) * Q,
                            (yo + transformed.height) * Q>>
              pasted == overlay_card(background, transformed, <<xo, yo>>)
              recorded == RecordBoxes(boxes, pasted, 1, placed_boxes, objects, background)
          IN  /\ x_off' = xo
              /\ y_off' = yo
              /\ prev_placed' = placed_boxes
              /\ total_attempts' = total_attempts + 1
              /\ IF check_image_coverage(full_box, placed_boxes)
                 THEN /\ outcome' = "covered"
                      /\ attempt' = attempt + 1
                      /\ UNCHANGED <<background, backgrounds, placed_boxes,
                                     objects, pc, card_index, blends, footprints>>
                 ELSE IF check_overlap(new_boxes, placed_boxes)
                 THEN /\ outcome' = "overlap"
                      /\ attempt' = attempt + 1
                      /\ UNCHANGED <<background, backgrounds, placed_boxes,
                                     objects, pc, card_index, blends, footprints>>
                 ELSE /\ outcome' = "placed"
                      /\ background' = pasted.background
                      /\ backgrounds' =
                            [b \in DOMAIN backgrounds |->
                                PoolBufferAfterWrites(backgrounds[b], background,
                                                      pasted.background)]
                      /\ placed_boxes' = recorded.placed_boxes
                      /\ objects' = recorded.objects
                      /\ blends' = blends + 1
                      /\ footprints' = Append(footprints,
                            [full_box |-> full_box, found |-> Len(placed_boxes)])
                      /\ card_index' = card_index + 1
                      /\ pc' = "card"
                      /\ UNCHANGED attempt
    /\ UNCHANGED <<cards, label_base_percent, random_base_percent,
                   count_hi, num_cards, base_percent, desired_area, variation,
                   scale_factor, transformed, diagnostics>>
    /\ UNCHANGED <<harnessVars, datasetVars>>

Attempt == AttemptDrawing(FALSE)

\* the attempt loop ends without a break: the per-card loop goes on
Exhausted ==
    /\ pc = "attempt"
    /\ attempt = AttemptsPerCard
    /\ card_index' = card_index + 1
    /\ outcome' = "skipped"
    /\ pc' = "card"
    /\ UNCHANGED <<cards, backgrounds, background, label_base_percent, placed_boxes,
                   objects, random_base_percent, count_hi, num_cards, base_percent,
                   desired_area, variation, scale_factor, transformed, attempt,
                   x_off, y_off, prev_placed, total_attempts, blends, footprints, diagnostics>>
    /\ UNCHANGED <<harnessVars, datasetVars>>

\* the per-card loop ends: return objects
Return ==
    /\ pc = "card"
    /\ card_index = num_cards
    /\ pc' = "done"
    /\ UNCHANGED <<cards, backgrounds, background, label_base_percent, placed_boxes,
                   objects, random_base_percent, count_hi, num_cards, card_index,
                   base_percent, desired_area, variation, scale_factor, transformed,
                   attempt, x_off, y_off, outcome, prev_placed, total_attempts,
                   blends, footprints, diagnostics>>
    /\ UNCHANGED <<harnessVars, datasetVars>>

Next ==
    \/ StartImage
    \/ ChooseCount
    \/ DrawCard
    \/ Attempt
    \/ Exhausted
    \/ Return

Spec == Init /\ [][Next]_vars

(***************************************************************************)
(* check_overlap and check_image_coverage applied to drawn arguments.      *)
(***************************************************************************)
\* longest box list drawn
MaxBoxes == 2

SeqsUpTo(S, n) == UNION {[1..k -> S] : k \in 0..n}

\* an existing box of 100 x 100, a box of half its width, boxes of no area
ExistingBoxDraws ==
    { <<0, 0, 100, 100>>, <<0, 0, 50, 100>>, <<0, 0, 0, 100>>, <<100, 100, 0, 0>> }

\* candidates covering 39, 40 and 41 hundredths of the 100 x 100 box, two
\* strips of 20 hundredths, and a box outside it
NewBoxDraws ==
    { <<0, 0, 39, 100>>, <<0, 0, 40, 100>>, <<0, 0, 41, 100>>,
      <<0, 0, 20, 100>>, <<20, 0, 40, 100>>, <<100, 0, 150, 100>> }

CoverageCalls ==
    [fn : {"check_overlap"},
     new_boxes : SeqsUpTo(NewBoxDraws, MaxBoxes),
     existing_boxes : SeqsUpTo(ExistingBoxDraws, MaxBoxes)]
    \cup
    [fn : {"check_image_coverage"},
     image_box : NewBoxDraws,
     existing_boxes : SeqsUpTo(ExistingBoxDraws, MaxBoxes)]

InitCoverage ==
    /\ PlaceInit(Pool, BackgroundPool)
    /\ DatasetIdle
    /\ call \in CoverageCalls
    /\ ret = Pending

ApplyCheckOverlap ==
    /\ call.fn = "check_overlap"
    /\ ret = Pending
    /\ ret' = <<check_overlap(call.new_boxes, call.existing_boxes)>>
    /\ UNCHANGED <<placeVars, call, datasetVars>>

ApplyCheckImageCoverage ==
    /\ call.fn = "check_image_coverage"
    /\ ret = Pending
    /\ ret' = <<check_image_coverage(call.image_box, call.existing_boxes)>>
    /\ UNCHANGED <<placeVars, call, datasetVars>>

NextCoverage ==
    \/ ApplyCheckOverlap
    \/ ApplyCheckImageCoverage

SpecCoverage == InitCoverage /\ [][NextCoverage]_vars

(***************************************************************************)
(* The count decision of place_cards_on_background alone, over fractions   *)
(* on both sides of each threshold and the whole range of randint.         *)
(***************************************************************************)
\* fractions generate_label_base_percents can give, in thousandths
CountPercentDraws == {17, 50, 51, 100, 101, 150, 151, 400, 1000}

StartImageCount == StartImageWith(CountPercentDraws)

ChooseCountFull == ChooseCountUpTo(NumCardsHi(0))

NextCount ==
    \/ StartImageCount
    \/ ChooseCountFull

SpecCount == Init /\ [][NextCount]_vars

(***************************************************************************)
(* overlay_card applied to drawn arguments.                                *)
(***************************************************************************)
\* the canvas of the calls drawn
OvW == 3
OvH == 3

\* a canvas whose pixels all differ
OverlayCanvas ==
    [h |-> OvH, w |-> OvW, ch |-> 3,
     px |-> [rc \in (1..OvH) \X (1..OvW) |-> <<10 * rc[1] + rc[2]>>]]

\* transparent, opaque and half-transparent sprite pixels
SpritePixelDraws == { <<200, 0>>, <<200, 255>>, <<50, 128>> }

Sprite(h, w, ch, px) ==
    [image |-> [h |-> h, w |-> w, ch |-> ch, px |-> px], label |-> "maki_roll",
     width |-> w, height |-> h, original_angle |-> Angle0,
     bounding_boxes |-> << Box("maki_roll", 0, 0, w * Q, h * Q) >>]

\* 2 x 2 sprites with alpha, a 2 x 2 sprite without, a sprite wider than the
\* canvas, a sprite taller than the canvas, and an empty sprite
SpriteDraws ==
    { Sprite(2, 2, 4, px) : px \in [(1..2) \X (1..2) -> SpritePixelDraws] }
    \cup
    { Sprite(2, 2, 3, [rc \in (1..2) \X (1..2) |-> <<77>>]),
      Sprite(1, OvW + 1, 4, [rc \in (1..1) \X (1..(OvW + 1)) |-> <<50, 128>>]),
      Sprite(OvH + 1, 1, 4, [rc \in (1..(OvH + 1)) \X (1..1) |-> <<200, 255>>]),
      Sprite(0, 0, 4, <<>>) }

OverlayCalls ==
    [fn : {"overlay_card"},
     background : {OverlayCanvas},
     card : SpriteDraws,
     position : (-1..OvW) \X (-1..OvH)]

InitOverlay ==
    /\ PlaceInit(Pool, BackgroundPool)
    /\ DatasetIdle
    /\ call \in OverlayCalls
    /\ ret = Pending

ApplyOverlayCard ==
    /\ call.fn = "overlay_card"
    /\ ret = Pending
    /\ ret' = <<overlay_card(call.background, call.card, call.position)>>
    /\ UNCHANGED <<placeVars, call, datasetVars>>

NextOverlay == ApplyOverlayCard

SpecOverlay == InitOverlay /\ [][NextOverlay]_vars

(***************************************************************************)
(* utils/annotations.py: convert_to_yolo_format, create_yolo_annotation    *)
(* A normalised value is a float in the code; here it is the exact         *)
(* rational <<n, d>>, d > 0.  A value written with 5 decimals is an        *)
(* integer number of 1/100000.                                             *)
(***************************************************************************)
\* the clamp without its upper side: max(0, v)
Clamp01LowerOnly(v) == IF v[1] < 0 THEN <<0, v[2]>> ELSE v

\* max(0, min(1, v))
Clamp01(v) ==
    IF v[1] < 0 THEN <<0, v[2]>>
    ELSE IF v[1] > v[2] THEN <<v[2], v[2]>>
    ELSE v

\* the conversion with the top-left corner in place of the centre
convert_to_yolo_format_corner(box, image_width, image_height, class_id) ==
    [class_id |-> class_id,
     x_center |-> Clamp01(<<box[1], image_width>>),
     y_center |-> Clamp01(<<box[2], image_height>>),
     width |-> Clamp01(<<box[3] - box[1], image_width>>),
     height |-> Clamp01(<<box[4] - box[2], image_height>>)]

\* box and the image size are in the same unit
convert_to_yolo_format(box, image_width, image_height, class_id) ==
    [class_id |-> class_id,
     x_center |-> Clamp01(<<box[1] + box[3], 2 * image_width>>),
     y_center |-> Clamp01(<<box[2] + box[4], 2 * image_height>>),
     width |-> Clamp01(<<box[3] - box[1], image_width>>),
     height |-> Clamp01(<<box[4] - box[2], image_height>>)]

\* f"{v:.5f}" of v in [0, 1]: the nearest number of 1/100000, by long division
\* in two steps; an exact tie goes to the even neighbour
Format5(v) ==
    LET q1 == (v[1] * 100) \div v[2]
        r1 == (v[1] * 100) % v[2]
        q2 == (r1 * 1000) \div v[2]
        r2 == (r1 * 1000) % v[2]
        down == q1 * 1000 + q2
    IN  IF 2 * r2 > v[2] THEN down + 1
        ELSE IF 2 * r2 < v[2] THEN down
        ELSE IF down % 2 = 0 THEN down ELSE down + 1

\* config.CLASSES and config.LABEL_TO_ID
CLASSES ==
    <<"egg_nigiri", "salmon_nigiri", "squid_nigiri", "wasabi", "tempura",
      "sashimi", "dumpling", "chopsticks", "pudding", "maki_roll">>

LABEL_TO_ID ==
    [l \in {CLASSES[i] : i \in 1..Len(CLASSES)} |->
        (CHOOSE i \in 1..Len(CLASSES) : CLASSES[i] = l) - 1]

\* one line of the annotation: the class id and the four values as written
YoloLine(obj, image_width, image_height, class_id) ==
    LET yolo_box == convert_to_yolo_format(<<obj.xmin, obj.ymin, obj.xmax, obj.ymax>>,
                                           image_width * Q, image_height * Q, class_id)
    IN  [class_id |-> yolo_box.class_id,
         x_center |-> Format5(yolo_box.x_center),
         y_center |-> Format5(yolo_box.y_center),
         width |-> Format5(yolo_box.width),
         height |-> Format5(yolo_box.height)]

\* the loop of create_yolo_annotation that stops at the first unknown label
RECURSIVE CreateYoloFromStopping(_, _, _, _, _, _, _)
CreateYoloFromStopping(objs, image_width, image_height, label_to_id, i, lines, printed) ==
    IF i > Len(objs) THEN [annotation_lines |-> lines, printed |-> printed]
    ELSE IF objs[i].label \notin DOMAIN label_to_id
    THEN [annotation_lines |-> lines,
          printed |-> Append(printed, [warn |-> "unknown label", label |-> objs[i].label])]
    ELSE CreateYoloFromStopping(objs, image_width, image_height, label_to_id, i + 1,
             Append(lines, YoloLine(objs[i], image_width, image_height,
                                    label_to_id[objs[i].label])),
             printed)

\* the loop "for obj in objects" from objs[i]: an unknown label prints a
\* warning and is passed over
RECURSIVE CreateYoloFrom(_, _, _, _, _, _, _)
CreateYoloFrom(objs, image_width, image_height, label_to_id, i, lines, printed) ==
    IF i > Len(objs) THEN [annotation_lines |-> lines, printed |-> printed]
    ELSE IF objs[i].label \notin DOMAIN label_to_id
    THEN CreateYoloFrom(objs, image_width, image_height, label_to_id, i + 1, lines,
             Append(printed, [warn |-> "unknown label", label |-> objs[i].label]))
    ELSE CreateYoloFrom(objs, image_width, image_height, label_to_id, i + 1,
             Append(lines, YoloLine(objs[i], image_width, image_height,
                                    label_to_id[objs[i].label])),
             printed)

\* coordinates of objects in 1/Q pixel, the image size in pixels
create_yolo_annotation(objs, image_width, image_height, label_to_id) ==
    CreateYoloFrom(objs, image_width, image_height, label_to_id, 1, <<>>, <<>>)

(***************************************************************************)
(* The encoder applied to drawn arguments, on the canvas of the            *)
(* configuration.                                                          *)
(***************************************************************************)
\* config.TARGET_SIZE, both sides
TargetSize == 620

\* longest object list drawn
MaxObjects == 3

\* coordinates in 1/Q pixel: left of the canvas, on its edges, inside, beyond
CoordDraws == {-2000, 0, 333333, TargetSize * Q, TargetSize * Q + 80000}

Object(label, xmin, ymin, xmax, ymax) ==
    [label |-> label, xmin |-> xmin, ymin |-> ymin, xmax |-> xmax, ymax |-> ymax]

\* objects as place_cards_on_background returns them, one with a label that
\* is not a class, one with no height
ObjectDraws ==
    { Object("maki_roll", 0, 0, TargetSize * Q, TargetSize * Q),
      Object("wasabi", 333333, 1, 619999, TargetSize * Q),
      Object("maki_roll", 1000, 333333, 2000, 334333),
      Object("egg_nigiri", 250000, 250500, 617250, 400750),
      Object("sushi_cat", 0, 0, 310000, 310000),
      Object("tempura", 0, TargetSize * Q, 750, TargetSize * Q) }

YoloCalls ==
    [fn : {"convert_to_yolo_format"},
     box : CoordDraws \X CoordDraws \X CoordDraws \X CoordDraws,
     image_width : {TargetSize * Q},
     image_height : {TargetSize * Q},
     class_id : {0}]
    \cup
    [fn : {"create_yolo_annotation"},
     objects : SeqsUpTo(ObjectDraws, MaxObjects),
     image_width : {TargetSize},
     image_height : {TargetSize},
     label_to_id : {LABEL_TO_ID}]

InitYolo ==
    /\ PlaceInit(Pool, BackgroundPool)
    /\ DatasetIdle
    /\ call \in YoloCalls
    /\ ret = Pending

ApplyConvertToYoloFormat ==
    /\ call.fn = "convert_to_yolo_format"
    /\ ret = Pending
    /\ ret' = <<convert_to_yolo_format(call.box, call.image_width, call.image_height,
                                       call.class_id)>>
    /\ UNCHANGED <<placeVars, call, datasetVars>>

ApplyCreateYoloAnnotation ==
    /\ call.fn = "create_yolo_annotation"
    /\ ret = Pending
    /\ LET res == create_yolo_annotation(call.objects, call.image_width,
                                         call.image_height, call.label_to_id)
       IN  /\ ret' = <<res.annotation_lines>>
           /\ diagnostics' = diagnostics \o res.printed
    /\ UNCHANGED <<cards, backgrounds, background, label_base_percent, placed_boxes,
                   objects, pc, random_base_percent, count_hi, num_cards, card_index,
                   base_percent, desired_area, variation, scale_factor, transformed,
                   attempt, x_off, y_off, outcome, prev_placed, total_attempts, blends, footprints,
                   call, datasetVars>>

NextYolo ==
    \/ ApplyConvertToYoloFormat
    \/ ApplyCreateYoloAnnotation

SpecYolo == InitYolo /\ [][NextYolo]_vars

(***************************************************************************)
(* apply_transformations applied to drawn arguments.                       *)
(***************************************************************************)
\* a sprite that is not square, with a box that is not centred
CardPudding ==
    Card("pudding", 4, 2, 150, <<Box("pudding", 1, 0, 3, 1), Box("pudding", 0, 0, 4, 2)>>)

\* scale factors in 1/SfDen: a half, three quarters, one, and 1.8
ScaleDraws == {SfDen \div 2, 75, SfDen, 180}

AngleDraws == {Angle0, Angle90, Angle180, Angle270, Angle345}

WarpDraws == {NoWarp, [on |-> TRUE, tx |-> -900, ty |-> 400]}

TransformCalls ==
    { c \in [fn : {"apply_transformations"},
             card : {CardMaki, CardWasabi, CardPudding},
             scale_factor : ScaleDraws,
             angle : AngleDraws,
             warp : WarpDraws] :
        LET w == (c.card.width * c.scale_factor) \div SfDen
            h == (c.card.height * c.scale_factor) \div SfDen
            size == RotatedSize(w, h, c.angle)
        IN  w >= 1 /\ h >= 1 /\ WarpPossible(c.warp, size[1], size[2]) }

InitTransform ==
    /\ PlaceInit(Pool, BackgroundPool)
    /\ DatasetIdle
    /\ call \in TransformCalls
    /\ ret = Pending

ApplyTransformations ==
    /\ call.fn = "apply_transformations"
    /\ ret = Pending
    /\ ret' = <<apply_transformations(call.card, call.scale_factor, call.angle, call.warp)>>
    /\ call' = [call EXCEPT !.card = CardAfterTransformations(call.card, call.scale_factor,
                                                                call.angle, call.warp)]
    /\ UNCHANGED <<placeVars, datasetVars>>

NextTransform == ApplyTransformations

SpecTransform == InitTransform /\ [][NextTransform]_vars

(***************************************************************************)
(* image_processing/loaders.py: load_card_images.  A directory is the      *)
(* sequence of its image files; a file carries its base name, spelled out  *)
(* character by character, its size, and the lines of its annotation file, *)
(* each line the sequence of its whitespace-separated fields.  A field is  *)
(* an integer literal, a decimal literal (its value in thousandths) or     *)
(* text that is no number.                                                 *)
(***************************************************************************)
IntField(n) == [kind |-> "int", v |-> n]
DecField(thousandths) == [kind |-> "dec", v |-> thousandths]
TextField == [kind |-> "text", v |-> 0]

\* int(s) accepts an integer literal only; float(s) accepts both literals
ParsesAsInt(field) == field.kind = "int"
ParsesAsFloat(field) == field.kind \in {"int", "dec"}
FloatOf(field) == IF field.kind = "int" THEN field.v * 1000 ELSE field.v

\* int() of a quotient: truncation toward zero
TruncDiv(n, d) == IF n >= 0 THEN n \div d ELSE -((-n) \div d)

\* the characters of a name as one string
RECURSIVE Join(_)
Join(chars) == IF chars = <<>> THEN "" ELSE chars[1] \o Join(Tail(chars))

\* config.py's CLASSES, spelled out
CLASSES_SPELLED ==
    << <<"e", "g", "g", "_", "n", "i", "g", "i", "r", "i">>,
       <<"s", "a", "l", "m", "o", "n", "_", "n", "i", "g", "i", "r", "i">>,
       <<"s", "q", "u", "i", "d", "_", "n", "i", "g", "i", "r", "i">>,
       <<"w", "a", "s", "a", "b", "i">>,
       <<"t", "e", "m", "p", "u", "r", "a">>,
       <<"s", "a", "s", "h", "i", "m", "i">>,
       <<"d", "u", "m", "p", "l", "i", "n", "g">>,
       <<"c", "h", "o", "p", "s", "t", "i", "c", "k", "s">>,
       <<"p", "u", "d", "d", "i", "n", "g">>,
       <<"m", "a", "k", "i", "_", "r", "o", "l", "l">> >>

Digits == {"0", "1", "2", "3", "4", "5", "6", "7", "8", "9"}

\* re.sub(r'_[0-9]+$', '', filename) when group_variations, else filename
normalize_filename(filename, group_variations) ==
    LET underscores == {j \in 1..Len(filename) : filename[j] = "_"}
    IN  IF ~group_variations \/ underscores = {} THEN filename
        ELSE LET last == CHOOSE j \in underscores : \A k \in underscores : k <= j
             IN  IF last < Len(filename)
                    /\ \A k \in (last + 1)..Len(filename) : filename[k] \in Digits
                 THEN SubSeq(filename, 1, last - 1)
                 ELSE filename

\* label.startswith(class_name)
StartsWith(label, class_name) ==
    /\ Len(class_name) <= Len(label)
    /\ SubSeq(label, 1, Len(class_name)) = class_name

\* lines 51-55: some class name is a prefix of the label
valid_class_found(label, classes) ==
    \E c \in 1..Len(classes) : StartsWith(label, classes[c])

\* a message of the loader: about a file (line 0) or about one of its lines
Message(msg, file, line) == [msg |-> msg, file |-> Join(file.base_name), line |-> line]

\* lines 88-109: the box of a line in pixels of the image
LineBox(class_name, x_center, y_center, width, height, img_width, img_height) ==
    Box(class_name,
        TruncDiv(2 * x_center * img_width - width * img_width, 2000),
        TruncDiv(2 * y_center * img_height - height * img_height, 2000),
        TruncDiv(2 * x_center * img_width + width * img_width, 2000),
        TruncDiv(2 * y_center * img_height + height * img_height, 2000))

\* lines 77-111 for line number n of a file: the boxes it adds (none or one)
\* and what it prints
ParseLine(file, n, classes) ==
    LET parts == file.lines[n]
        nothing == [boxes |-> <<>>, printed |-> <<>>]
        failed(e) == [boxes |-> <<>>, printed |-> <<Message(e, file, n)>>]
    IN  IF Len(parts) # 5 THEN nothing
        ELSE IF ~ParsesAsInt(parts[1]) THEN failed("ValueError")
        ELSE LET class_id == parts[1].v
             IN  IF ~(class_id < Len(classes)) THEN nothing
                 ELSE IF class_id < -Len(classes) THEN failed("IndexError")
                 ELSE IF \E k \in 2..5 : ~ParsesAsFloat(parts[k])
                 THEN failed("ValueError")
                 ELSE LET class_name ==
                              Join(classes[IF class_id >= 0 THEN class_id + 1
                                           ELSE Len(classes) + class_id + 1])
                      IN  [boxes |-> <<LineBox(class_name, FloatOf(parts[2]),
                                               FloatOf(parts[3]), FloatOf(parts[4]),
                                               FloatOf(parts[5]), file.width,
                                               file.height)>>,
                           printed |-> <<>>]

\* lines 74-111: the lines of the annotation file in order
RECURSIVE ParseLinesFrom(_, _, _, _, _)
ParseLinesFrom(file, classes, n, bounding_boxes, printed) ==
    IF n > Len(file.lines) THEN [boxes |-> bounding_boxes, printed |-> printed]
    ELSE LET res == ParseLine(file, n, classes)
         IN  ParseLinesFrom(file, classes, n + 1, bounding_boxes \o res.boxes,
                            printed \o res.printed)

\* lines 33-126 for one image file: the cards it adds (none or one) and what
\* it prints
LoadFile(file, classes, group_variations) ==
    LET label == normalize_filename(file.base_name, group_variations)
        skipped(msg) == [cards |-> <<>>, printed |-> <<Message(msg, file, 0)>>]
    IN  IF ~file.has_txt THEN skipped("no txt file")
        ELSE IF ~valid_class_found(label, classes) THEN skipped("not a valid class")
        ELSE IF ~file.readable THEN skipped("cannot load image")
        ELSE LET parsed == ParseLinesFrom(file, classes, 1, <<>>, <<>>)
             IN  IF parsed.boxes = <<>>
                 THEN [cards |-> <<>>,
                       printed |-> Append(parsed.printed,
                                          Message("no valid bounding boxes", file, 0))]
                 ELSE [cards |-> <<Card(Join(label), file.width, file.height,
                                         file.colour, parsed.boxes)>>,
                       printed |-> parsed.printed]

RECURSIVE LoadCardsFrom(_, _, _, _, _, _)
LoadCardsFrom(image_paths, classes, group_variations, f, loaded, printed) ==
    IF f > Len(image_paths) THEN [cards |-> loaded, printed |-> printed]
    ELSE LET res == LoadFile(image_paths[f], classes, group_variations)
         IN  LoadCardsFrom(image_paths, classes, group_variations, f + 1,
                           loaded \o res.cards, printed \o res.printed)

\* the pool and the messages of a directory that exists (the closing count
\* of loaded cards is not among the messages)
load_card_images(image_paths, classes, group_variations) ==
    LoadCardsFrom(image_paths, classes, group_variations, 1, <<>>, <<>>)

(***************************************************************************)
(* Calls of load_card_images.  The values drawn are binary fractions, so   *)
(* the products and sums of the code's floats are exact.                   *)
(***************************************************************************)
MaxLines == 3

\* a well-formed line of class 9 around the centre, one of class 3 in the
\* top-left quarter; a line of four fields; a value that is no number; class
\* ids 10, -1 and -11; a line of zero width; a line whose left and right
\* edges truncate to the same pixel
GoodLineDraws ==
    { <<IntField(9), DecField(500), DecField(500), DecField(500), DecField(500)>>,
      <<IntField(3), DecField(250), DecField(250), DecField(500), DecField(500)>> }

LineDraws ==
    GoodLineDraws \cup
    { <<IntField(0), DecField(500), DecField(500), DecField(500)>>,
      <<IntField(0), TextField, DecField(500), DecField(500), DecField(500)>>,
      <<IntField(10), DecField(500), DecField(500), DecField(500), DecField(500)>>,
      <<IntField(-1), DecField(500), DecField(500), DecField(500), DecField(500)>>,
      <<IntField(-11), DecField(500), DecField(500), DecField(500), DecField(500)>>,
      <<IntField(0), DecField(500), DecField(500), DecField(0), DecField(500)>>,
      <<IntField(0), DecField(125), DecField(500), DecField(125), DecField(500)>> }

NameMakiRoll3 == <<"m", "a", "k", "i", "_", "r", "o", "l", "l", "_", "3">>
NameWasabiExtra == <<"w", "a", "s", "a", "b", "i", "_", "e", "x", "t", "r", "a">>
NameSushiCat == <<"s", "u", "s", "h", "i", "_", "c", "a", "t", "_", "1">>
NameEgg == <<"e", "g", "g">>

\* an image file of 4 x 4 pixels with its annotation file
File(base_name, lines) ==
    [base_name |-> base_name, has_txt |-> TRUE, readable |-> TRUE,
     width |-> 4, height |-> 4, colour |-> 200, lines |-> lines]

FileDraws ==
    {File(NameMakiRoll3, lines) : lines \in SeqsUpTo(LineDraws, MaxLines)}
    \cup {File(name, lines) : name \in {NameWasabiExtra, NameSushiCat, NameEgg},
                              lines \in SeqsUpTo(GoodLineDraws, 1)}
    \cup {[File(NameMakiRoll3, <<>>) EXCEPT !.has_txt = FALSE],
          [File(NameMakiRoll3, <<>>) EXCEPT !.readable = FALSE]}

\* directories of one file, and of two files with at most one line each
DirectoryDraws ==
    {<<file>> : file \in FileDraws}
    \cup {<<a, b>> : a \in {file \in FileDraws : Len(file.lines) <= 1},
                     b \in {file \in FileDraws : file.lines \in SeqsUpTo(GoodLineDraws, 1)}}

LoaderCalls ==
    [fn : {"load_card_images"}, files : DirectoryDraws, classes : {CLASSES_SPELLED},
     group_variations : {TRUE}]

InitLoader ==
    /\ PlaceInit(Pool, BackgroundPool)
    /\ DatasetIdle
    /\ call \in LoaderCalls
    /\ ret = Pending

ApplyLoadCardImages ==
    /\ call.fn = "load_card_images"
    /\ ret = Pending
    /\ LET res == load_card_images(call.files, call.classes, call.group_variations)
       IN  /\ ret' = <<res.cards>>
           /\ diagnostics' = diagnostics \o res.printed
    /\ UNCHANGED <<cards, backgrounds, background, label_base_percent, placed_boxes,
                   objects, pc, random_base_percent, count_hi, num_cards, card_index,
                   base_percent, desired_area, variation, scale_factor, transformed,
                   attempt, x_off, y_off, outcome, prev_placed, total_attempts, blends, footprints,
                   call, datasetVars>>

NextLoader == ApplyLoadCardImages

SpecLoader == InitLoader /\ [][NextLoader]_vars

(***************************************************************************)
(* generate_dataset: the pools are loaded and tested, then the train, the  *)
(* validation and the test images are generated, then data.yaml is         *)
(* written.  generate_synthetic_image is taken by its files: one image and *)
(* one label file in the partition's directories.  Ratios are in           *)
(* hundredths.                                                             *)
(***************************************************************************)
TotalImages == 100
MaxImages == 7

\* config.py's DATASET_CONFIG, by the keys generate_dataset reads
DATASET_CONFIG ==
    [total_images |-> TotalImages, train_ratio |-> 75, valid_ratio |-> 15,
     classes |-> CLASSES]

\* a configuration that also names the dataset's root directory
WithOutputDir(config) ==
    [k \in DOMAIN config \cup {"output_dir"} |->
        IF k = "output_dir" THEN "dataset" ELSE config[k]]

ConfigDraws ==
    LET sized == {[DATASET_CONFIG EXCEPT !.total_images = t, !.train_ratio = r[1],
                                         !.valid_ratio = r[2]] :
                    t \in {0, MaxImages, TotalImages}, r \in {<<75, 15>>, <<50, 25>>}}
    IN  sized \cup {WithOutputDir(c) : c \in sized}

\* int(total_images * ratio)
NumImages(total_images, ratio) == (total_images * ratio) \div 100

num_train(config) == NumImages(config["total_images"], config["train_ratio"])
num_valid(config) == NumImages(config["total_images"], config["valid_ratio"])
num_test(config) == config["total_images"] - num_train(config) - num_valid(config)

\* the mutant of PoolsMissing: only the sprite pool is tested
PoolsMissingCardsOnly(pool, bgs) ==
    IF pool = <<>> THEN "cards" ELSE "none"

\* `if not cards` and then `if not backgrounds`: which test ends the run
PoolsMissing(pool, bgs) ==
    IF pool = <<>> THEN "cards"
    ELSE IF bgs = <<>> THEN "backgrounds"
    ELSE "none"

\* index of the first image after a partition
PartitionEnd(config, partition) ==
    CASE partition = "train" -> num_train(config)
      [] partition = "valid" -> num_train(config) + num_valid(config)
      [] partition = "test" -> config["total_images"]

PartitionStart(config, partition) ==
    CASE partition = "train" -> 0
      [] partition = "valid" -> num_train(config)
      [] partition = "test" -> num_train(config) + num_valid(config)

NextPartition(partition) ==
    CASE partition = "train" -> "valid"
      [] partition = "valid" -> "test"
      [] partition = "test" -> "yaml"

InitDataset ==
    /\ \E pool \in {<<>>, Pool} : \E bgs \in {<<>>, BackgroundPool} :
          PlaceInit(pool, bgs)
    /\ \E config \in ConfigDraws : call = [fn |-> "generate_dataset", config |-> config]
    /\ ret = Pending
    /\ gd_pc = "start"
    /\ image_index = 0
    /\ files = <<>>
    /\ manifest = 0

datasetFrame == <<cards, backgrounds, background, label_base_percent, placed_boxes,
                  objects, pc, random_base_percent, count_hi, num_cards, card_index,
                  base_percent, desired_area, variation, scale_factor, transformed,
                  attempt, x_off, y_off, outcome, prev_placed, total_attempts, blends, footprints,
                  call>>

\* lines 64-74: load both pools; an empty one is reported and ends the run with 0
LoadResources ==
    /\ gd_pc = "start"
    /\ LET missing == PoolsMissing(cards, backgrounds)
       IN  IF missing = "none"
           THEN /\ gd_pc' = "train"
                /\ diagnostics' = diagnostics \o
                       <<[msg |-> "loaded", n |-> Len(cards)],
                         [msg |-> "generating train", n |-> num_train(call.config)]>>
                /\ ret' = ret
           ELSE /\ gd_pc' = "returned"
                /\ diagnostics' = Append(diagnostics, [msg |-> "error: no " \o missing,
                                                       n |-> 0])
                /\ ret' = <<0>>
    /\ UNCHANGED <<datasetFrame, image_index, files, manifest>>

\* one iteration of a partition's loop: generate_synthetic_image writes the
\* image and its label file
GenerateSyntheticImage ==
    /\ gd_pc \in {"train", "valid", "test"}
    /\ image_index < PartitionEnd(call.config, gd_pc)
    /\ files' = files \o <<[dir |-> gd_pc, kind |-> "image", image_index |-> image_index],
                           [dir |-> gd_pc, kind |-> "label", image_index |-> image_index]>>
    /\ image_index' = image_index + 1
    /\ diagnostics' =
          IF (image_index - PartitionStart(call.config, gd_pc)) % 10 = 0
          THEN Append(diagnostics,
                      [msg |-> "progress",
                       n |-> image_index - PartitionStart(call.config, gd_pc)])
          ELSE diagnostics
    /\ UNCHANGED <<datasetFrame, ret, gd_pc, manifest>>

\* a partition's loop is over: go on to the next partition, or to data.yaml
EndPartition ==
    /\ gd_pc \in {"train", "valid", "test"}
    /\ image_index = PartitionEnd(call.config, gd_pc)
    /\ gd_pc' = NextPartition(gd_pc)
    /\ diagnostics' =
          IF gd_pc = "train"
          THEN Append(diagnostics, [msg |-> "generating valid",
                                    n |-> num_valid(call.config)])
          ELSE IF gd_pc = "valid"
          THEN Append(diagnostics, [msg |-> "generating test",
                                    n |-> num_test(call.config)])
          ELSE diagnostics
    /\ UNCHANGED <<datasetFrame, ret, image_index, files, manifest>>

\* lines 128-130: config['output_dir'] raises KeyError when the key is absent;
\* otherwise data.yaml is written and total_images returned
CreateDataYaml ==
    /\ gd_pc = "yaml"
    /\ IF "output_dir" \in DOMAIN call.config
       THEN /\ manifest' = manifest + 1
            /\ diagnostics' = Append(diagnostics, [msg |-> "data.yaml created", n |-> 0])
            /\ ret' = <<call.config["total_images"]>>
            /\ gd_pc' = "returned"
       ELSE /\ gd_pc' = "raised"
            /\ UNCHANGED <<manifest, diagnostics, ret>>
    /\ UNCHANGED <<datasetFrame, image_index, files>>

NextDataset ==
    \/ LoadResources
    \/ GenerateSyntheticImage
    \/ EndPartition
    \/ CreateDataYaml

SpecDataset == InitDataset /\ [][NextDataset]_vars

(***************************************************************************)
(* Images generated one after the other: generate_synthetic_image called   *)
(* again and again over the same pools, as the loops of generate_dataset   *)
(* do.                                                                     *)
(***************************************************************************)
ImagesInRow == 2

\* a pool of two backgrounds of different colour
BackgroundPoolOfTwo ==
    <<UniformImage(BgH, BgW, <<10>>), UniformImage(BgH, BgW, <<20>>)>>

InitImages ==
    /\ PlaceInit(Pool, BackgroundPoolOfTwo)
    /\ DatasetIdle
    /\ call = NoCall
    /\ ret = Pending

\* generate_synthetic_image is called for the next image; every area target
\* drawn is 1.0, so that a second sprite meets the first
StartImageInRow ==
    /\ image_index < ImagesInRow
    /\ StartImageWith({1000})

\* generate_synthetic_image, lines 37-51: the canvas and its annotation are
\* written and the call returns; the locals of place_cards_on_background are
\* gone, the objects they referred to are left as they are
SaveImage ==
    /\ pc = "done"
    /\ files' = files \o <<[dir |-> "train", kind |-> "image", image_index |-> image_index],
                           [dir |-> "train", kind |-> "label", image_index |-> image_index]>>
    /\ diagnostics' = diagnostics \o
          create_yolo_annotation(objects, background.w, background.h, LABEL_TO_ID).printed
    /\ image_index' = image_index + 1
    /\ pc' = "idle"
    /\ random_base_percent' = 0
    /\ count_hi' = 0
    /\ num_cards' = 0
    /\ card_index' = 0
    /\ base_percent' = 0
    /\ desired_area' = 0
    /\ variation' = 0
    /\ scale_factor' = 0
    /\ transformed' = NoCard
    /\ attempt' = 0
    /\ x_off' = 0
    /\ y_off' = 0
    /\ outcome' = "none"
    /\ prev_placed' = <<>>
    /\ total_attempts' = 0
    /\ blends' = 0
    /\ UNCHANGED <<cards, backgrounds, background, label_base_percent, placed_boxes,
                   objects, footprints, call, ret, gd_pc, manifest>>

NextImages ==
    \/ StartImageInRow
    \/ ChooseCount
    \/ DrawCard
    \/ Attempt
    \/ Exhausted
    \/ Return
    \/ SaveImage

SpecImages == InitImages /\ [][NextImages]_vars

(***************************************************************************)
(* One image over a pool holding a sprite with a box of no width, as       *)
(* load_card_images builds it from an annotation line of zero width.       *)
(***************************************************************************)
\* wasabi_extra.png with a line of zero width and a well-formed line
FileWithFlatBox ==
    File(NameWasabiExtra,
         <<<<IntField(0), DecField(500), DecField(500), DecField(0), DecField(500)>>,
           <<IntField(9), DecField(500), DecField(500), DecField(500), DecField(500)>>>>)

PoolWithFlatBox ==
    <<CardMaki>> \o load_card_images(<<FileWithFlatBox>>, CLASSES_SPELLED, TRUE).cards

InitFlat ==
    /\ PlaceInit(PoolWithFlatBox, BackgroundPool)
    /\ DatasetIdle
    /\ call = NoCall
    /\ ret = Pending

SpecFlat == InitFlat /\ [][Next]_vars

(***************************************************************************)
(* One image of up to three sprites of one pool card, every area target    *)
(* 0.16, the sprite upright and unwarped, the offsets drawn from both ends  *)
(* and the middle of randint's range.                                      *)
(***************************************************************************)
InitThree ==
    /\ PlaceInit(<<CardMaki>>, BackgroundPool)
    /\ DatasetIdle
    /\ call = NoCall
    /\ ret = Pending

StartImageThree == StartImageWith({160})

ChooseCountThree == ChooseCountUpTo(MaxCards + 1)

DrawCardUpright == DrawCardFrom({Draw(10, Angle0, NoWarp)})

AttemptMid == AttemptDrawing(TRUE)

NextThree ==
    \/ StartImageThree
    \/ ChooseCountThree
    \/ DrawCardUpright
    \/ AttemptMid
    \/ Exhausted
    \/ Return

SpecThree == InitThree /\ [][NextThree]_vars

(***************************************************************************)
(* Properties.                                                             *)
(***************************************************************************)
\* area of the intersection of two boxes (0 when they do not meet)
InterArea(a, b) ==
    Max(0, Min(a[3], b[3]) - Max(a[1], b[1])) * Max(0, Min(a[4], b[4]) - Max(a[2], b[2]))

\* width times height of a box with xmin <= xmax and ymin <= ymax, else 0
BoxArea(b) == IF b[1] <= b[3] /\ b[2] <= b[4] THEN (b[3] - b[1]) * (b[4] - b[2]) ELSE 0

RECURSIVE SumInter(_, _)
SumInter(eb, bs) ==
    IF bs = <<>> THEN 0 ELSE InterArea(eb, Head(bs)) + SumInter(eb, Tail(bs))

\* more than 40% of b: part / BoxArea(b) > 2/5
MoreThan40Pct(part, b) == 5 * part > 2 * BoxArea(b)

\* C2: the footprint check rejects exactly when the footprint meets some
\* existing box in an area strictly greater than 40% of that box's area; with
\* the existing box (0,0,100,100) the footprint (0,0,41,100) is rejected and
\* the footprints (0,0,39,100) and (0,0,40,100) are not.
C2_FootprintRejectsAbove40 ==
    (call.fn = "check_image_coverage" /\ ret # Pending) =>
        /\ ret[1] = (\E i \in 1..Len(call.existing_boxes) :
                     /\ InterArea(call.image_box, call.existing_boxes[i]) > 0
                     /\ MoreThan40Pct(InterArea(call.image_box, call.existing_boxes[i]),
                                      call.existing_boxes[i]))
        /\ call.existing_boxes = << <<0, 0, 100, 100>> >> =>
              /\ call.image_box = <<0, 0, 41, 100>> => ret[1] = TRUE
              /\ call.image_box = <<0, 0, 39, 100>> => ret[1] = FALSE
              /\ call.image_box = <<0, 0, 40, 100>> => ret[1] = FALSE

\* the footprint covering exactly 40% of the only existing box was checked
C2_Witness ==
    /\ call.fn = "check_image_coverage"
    /\ call.existing_boxes = << <<0, 0, 100, 100>> >>
    /\ call.image_box = <<0, 0, 40, 100>>
    /\ ret = <<FALSE>>

\* C3: check_overlap returns True exactly when some existing box of positive
\* area has a sum of intersection areas with the new boxes, each new box
\* counted separately, strictly greater than 40% of its area; an empty
\* existing list gives False.
C3_OverlapIsAccumulatedCoverage ==
    (call.fn = "check_overlap" /\ ret # Pending) =>
        /\ ret[1] = (\E i \in 1..Len(call.existing_boxes) :
                     /\ BoxArea(call.existing_boxes[i]) > 0
                     /\ MoreThan40Pct(SumInter(call.existing_boxes[i], call.new_boxes),
                                      call.existing_boxes[i]))
        /\ call.existing_boxes = <<>> => ret[1] = FALSE

\* two boxes of 39% each, neither above 40% alone, rejected together, with a
\* box of no area ahead of the covered one in the existing list
C3_Witness ==
    /\ call.fn = "check_overlap"
    /\ call.existing_boxes = << <<0, 0, 0, 100>>, <<0, 0, 100, 100>> >>
    /\ call.new_boxes = << <<0, 0, 39, 100>>, <<0, 0, 39, 100>> >>
    /\ ret = <<TRUE>>

\* the candidate boxes of the sprite in hand at the offset of the latest attempt
CandidateBoxes ==
    [i \in 1..Len(transformed.bounding_boxes) |->
        <<transformed.bounding_boxes[i].xmin + x_off * Q,
          transformed.bounding_boxes[i].ymin + y_off * Q,
          transformed.bounding_boxes[i].xmax + x_off * Q,
          transformed.bounding_boxes[i].ymax + y_off * Q>>]

\* the footprint of the sprite in hand at the offset of the latest attempt
Footprint ==
    <<x_off * Q, y_off * Q, (x_off + transformed.width) * Q,
      (y_off + transformed.height) * Q>>

\* an offset has been drawn for the sprite in hand
OffsetDrawn == outcome \in {"covered", "overlap", "placed"}

\* C1: every box place_cards_on_background returns lies inside the canvas and
\* has positive width and height: 0 <= xmin < xmax <= W and
\* 0 <= ymin < ymax <= H.
C1_ObjectsInsideCanvas ==
    \A i \in 1..Len(objects) :
        /\ 0 <= objects[i].xmin
        /\ objects[i].xmin < objects[i].xmax
        /\ objects[i].xmax <= background.w * Q
        /\ 0 <= objects[i].ymin
        /\ objects[i].ymin < objects[i].ymax
        /\ objects[i].ymax <= background.h * Q

\* one of the new sprite's candidate boxes has more than 40% of its area
\* inside the boxes placed before the latest attempt
OldCoversNew ==
    \E i \in 1..Len(CandidateBoxes) :
        /\ BoxArea(CandidateBoxes[i]) > 0
        /\ MoreThan40Pct(SumInter(CandidateBoxes[i], prev_placed), CandidateBoxes[i])

\* the footprint, or the candidate boxes together, cover more than 40% of a
\* box placed before the latest attempt
NewCoversOld ==
    \E j \in 1..Len(prev_placed) :
        /\ BoxArea(prev_placed[j]) > 0
        /\ \/ MoreThan40Pct(InterArea(Footprint, prev_placed[j]), prev_placed[j])
           \/ MoreThan40Pct(SumInter(prev_placed[j], CandidateBoxes), prev_placed[j])

\* C4 as stated: an offset is rejected when the new boxes cover more than 40%
\* of an already-placed box, and also when already-placed boxes cover more than
\* 40% of one of the new sprite's candidate boxes.
C4_BothDirectionsRejected ==
    OffsetDrawn => ((NewCoversOld \/ OldCoversNew) => outcome # "placed")

\* C4: an offset is rejected exactly when the new sprite's footprint, or its
\* candidate boxes together, cover more than 40% of an already-placed box;
\* how much of a candidate box lies inside already-placed boxes decides
\* nothing.
C4_OnlyNewCoversOldRejected ==
    OffsetDrawn => (outcome # "placed" <=> NewCoversOld)

\* a sprite was blended although placed boxes cover more than 40% of one of
\* its candidate boxes
C4_Witness ==
    /\ outcome = "placed"
    /\ OldCoversNew
    /\ ~NewCoversOld

\* the bounds on the work of one call, as far as it has got
AttemptBudget ==
    /\ attempt <= 15
    /\ card_index <= num_cards
    /\ num_cards <= count_hi
    /\ count_hi <= 12
    /\ total_attempts <= 15 * card_index + (IF pc = "attempt" THEN attempt ELSE 0)
    /\ total_attempts <= 15 * num_cards
    /\ 15 * count_hi <= 180
    /\ blends <= card_index
    /\ blends <= num_cards

\* the most steps the call can still take: 17 for each card not yet begun (its
\* draw, 15 attempts, the end of its loop), what is left of the attempt loop
\* of the card in hand, and the return
StepsLeft ==
    IF pc = "card" THEN 17 * (num_cards - card_index) + 1
    ELSE IF pc = "attempt"
    THEN 17 * (num_cards - card_index - 1) + (16 - attempt) + 1
    ELSE 0

\* C5: every call of place_cards_on_background terminates (each of its steps
\* lowers a natural number); at most 15 offsets are attempted for each card,
\* so at most 15 * count <= 180 in one image, and at most count sprites are
\* blended.
C5_TerminatesWithinBudget ==
    [][/\ AttemptBudget
       /\ AttemptBudget'
       /\ pc \in {"card", "attempt"} => (0 <= StepsLeft' /\ StepsLeft' < StepsLeft)]_vars

\* a call returned after a card used all 15 attempts and another was blended
C5_Witness ==
    /\ pc = "done"
    /\ total_attempts > 15
    /\ blends = 1
    /\ num_cards = 2

\* C6: when all 15 attempts for a card are rejected the card is skipped: the
\* canvas, the placed-box list and the output list are as they were before
\* the card, a diagnostic is emitted, and the loop goes on to the next card.
C6_SkipLeavesCanvasAndReports ==
    [][(pc = "attempt" /\ attempt = 15 /\ outcome' = "skipped") =>
          /\ background' = background
          /\ placed_boxes' = placed_boxes
          /\ objects' = objects
          /\ Len(diagnostics') > Len(diagnostics)
          /\ pc' = "card"
          /\ card_index' = card_index + 1]_vars

\* C8: the transformed sprite is no larger than the canvas in either
\* dimension, and every offset drawn keeps its full rectangle inside the
\* canvas.
C8_SpriteFitsCanvas ==
    /\ pc = "attempt" =>
          /\ transformed.width <= background.w
          /\ transformed.height <= background.h
    /\ OffsetDrawn =>
          /\ 0 <= x_off
          /\ x_off + transformed.width <= background.w
          /\ 0 <= y_off
          /\ y_off + transformed.height <= background.h

\* C9: the label looked up for the card in hand is a key of the mapping made
\* for the image, the fraction used is the mapping's value for that label, in
\* (0, 1], and the desired area is that fraction times v times the canvas
\* area with v in [0.9, 1.1].
C9_FractionIsAreaTarget ==
    pc = "attempt" =>
        LET label == transformed.bounding_boxes[1].label
        IN  /\ label \in DOMAIN label_base_percent
            /\ base_percent = label_base_percent[label]
            /\ base_percent > 0
            /\ base_percent <= 1000
            /\ variation \in 9..11
            /\ desired_area = base_percent * variation * background.w * background.h

\* C7: the card count is drawn from 1..hi with hi chosen by the fraction p of
\* one label of the mapping: 5 if p > 0.15, else 7 if p > 0.10, else 10 if
\* p > 0.05, else 12; the count is between 1 and 12; p = 0.15, 0.10 and 0.05
\* give 7, 10 and 12.
C7_CountRangeByFraction ==
    pc = "card" =>
        LET p == random_base_percent
        IN  /\ \E l \in DOMAIN label_base_percent : p = label_base_percent[l]
            /\ p > 150 => count_hi = 5
            /\ (p <= 150 /\ p > 100) => count_hi = 7
            /\ (p <= 100 /\ p > 50) => count_hi = 10
            /\ p <= 50 => count_hi = 12
            /\ p = 150 => count_hi = 7
            /\ p = 100 => count_hi = 10
            /\ p = 50 => count_hi = 12
            /\ 1 <= num_cards
            /\ num_cards <= count_hi
            /\ num_cards <= 12

\* the fraction drawn was exactly 0.15 and 7 cards were chosen
C7_Witness ==
    /\ pc = "card"
    /\ random_base_percent = 150
    /\ count_hi = 7
    /\ num_cards = 7

\* C10: overlay_card changes canvas pixels only inside the clipped region the
\* sprite covers; inside it each colour value becomes
\* bg * (1 - alpha) + fg * alpha with alpha = sprite alpha / 255, stored in the
\* 8-bit buffer without its fraction, so alpha 0 keeps the background value and
\* alpha 255 takes the sprite value; a sprite without alpha is copied.
C10_OverlayBlendsInsideRegionOnly ==
    (call.fn = "overlay_card" /\ ret # Pending) =>
        LET bg == call.background
            img == call.card.image
            res == ret[1]
            w == Max(0, Min(img.w, bg.w - res.x_offset))
            h == Max(0, Min(img.h, bg.h - res.y_offset))
            covered(rc) == /\ res.y_offset < rc[1] /\ rc[1] <= res.y_offset + h
                           /\ res.x_offset < rc[2] /\ rc[2] <= res.x_offset + w
        IN  /\ res.background.h = bg.h
            /\ res.background.w = bg.w
            /\ DOMAIN res.background.px = DOMAIN bg.px
            /\ \A rc \in DOMAIN bg.px :
                  LET old == bg.px[rc][1]
                      new == res.background.px[rc][1]
                  IN  IF ~covered(rc) THEN new = old
                      ELSE LET s == img.px[<<rc[1] - res.y_offset, rc[2] - res.x_offset>>]
                           IN  IF img.ch = 4
                               THEN /\ 255 * new <= old * (255 - s[2]) + s[1] * s[2]
                                    /\ old * (255 - s[2]) + s[1] * s[2] < 255 * (new + 1)
                                    /\ s[2] = 0 => new = old
                                    /\ s[2] = 255 => new = s[1]
                               ELSE new = s[1]

\* a sprite with a transparent, an opaque and a half-transparent pixel was
\* blended at (1, 1): the three pixels kept, took and mixed the values, and
\* the pixel at (0, 0) stayed
C10_Witness ==
    /\ call.fn = "overlay_card"
    /\ ret # Pending
    /\ call.position = <<1, 1>>
    /\ call.card.image.ch = 4
    /\ call.card.image.h = 2
    /\ call.card.image.px[<<1, 1>>] = <<50, 128>>
    /\ call.card.image.px[<<1, 2>>] = <<200, 0>>
    /\ call.card.image.px[<<2, 1>>] = <<200, 255>>
    /\ ret[1].background.px[<<2, 2>>] = <<36>>
    /\ ret[1].background.px[<<2, 3>>] = <<23>>
    /\ ret[1].background.px[<<3, 2>>] = <<200>>
    /\ ret[1].background.px[<<1, 1>>] = <<11>>

\* the sprite's boxes, in order, moved by (x, y) pixels
BoxesMovedBy(boxes, x, y) ==
    [i \in 1..Len(boxes) |->
        <<boxes[i].xmin + x * Q, boxes[i].ymin + y * Q,
          boxes[i].xmax + x * Q, boxes[i].ymax + y * Q>>]

\* the four lists overlay_card returned, box by box
ReturnedBoxes(res) ==
    [i \in 1..Len(res.xmin_list) |->
        <<res.xmin_list[i], res.ymin_list[i], res.xmax_list[i], res.ymax_list[i]>>]

\* C11 as stated: when the requested offset plus the sprite's size passes the
\* canvas, overlay_card keeps the requested offset, changed only by clamping
\* each coordinate to >= 0, and shrinks the sprite at the bottom/right edge;
\* the boxes returned are the sprite's boxes moved by that offset.
C11_OffsetKeptSpriteShrunk ==
    (call.fn = "overlay_card" /\ ret # Pending /\ ~ret[1].empty) =>
        LET res == ret[1]
            img == call.card.image
            x == Max(0, call.position[1])
            y == Max(0, call.position[2])
        IN  /\ res.x_offset = x
            /\ res.y_offset = y
            /\ res.card_w = Max(0, Min(img.w, call.background.w - x))
            /\ res.card_h = Max(0, Min(img.h, call.background.h - y))
            /\ ReturnedBoxes(res) = BoxesMovedBy(call.card.bounding_boxes, x, y)

\* C11: when the requested offset plus the sprite's size passes the canvas in
\* a coordinate, overlay_card moves the offset back to canvas size minus
\* sprite size in that coordinate and then clamps it to >= 0, so the sprite is
\* shrunk at the bottom/right edge only where it is larger than the canvas;
\* the boxes returned are the sprite's boxes, in order, moved by exactly the
\* offset at which the pixels were written.
C11_OffsetMovedBackBoxesFollow ==
    (call.fn = "overlay_card" /\ ret # Pending /\ ~ret[1].empty) =>
        LET res == ret[1]
            img == call.card.image
            bg == call.background
            x == IF call.position[1] + img.w > bg.w
                 THEN (IF bg.w >= img.w THEN bg.w - img.w ELSE 0)
                 ELSE (IF call.position[1] >= 0 THEN call.position[1] ELSE 0)
            y == IF call.position[2] + img.h > bg.h
                 THEN (IF bg.h >= img.h THEN bg.h - img.h ELSE 0)
                 ELSE (IF call.position[2] >= 0 THEN call.position[2] ELSE 0)
        IN  /\ res.x_offset = x
            /\ res.y_offset = y
            /\ res.card_w = (IF img.w > bg.w THEN bg.w ELSE img.w)
            /\ res.card_h = (IF img.h > bg.h THEN bg.h ELSE img.h)
            /\ ReturnedBoxes(res) = BoxesMovedBy(call.card.bounding_boxes, x, y)

\* an opaque 2 x 2 sprite asked for at the last row and column of the canvas
\* was written whole one pixel up and left of it, and its box moved with it
C11_Witness ==
    /\ call.fn = "overlay_card"
    /\ ret # Pending
    /\ call.position = <<OvW - 1, OvH - 1>>
    /\ call.card.image.ch = 3
    /\ call.card.image.w = 2
    /\ ret[1].x_offset = OvW - 2
    /\ ret[1].y_offset = OvH - 2
    /\ ret[1].card_w = 2
    /\ ret[1].background.px[<<OvH - 1, OvW - 1>>] = <<77>>
    /\ ReturnedBoxes(ret[1]) = << <<(OvW - 2) * Q, (OvH - 2) * Q, OvW * Q, OvH * Q>> >>

\* C12: each of x_center, y_center, width, height returned by
\* convert_to_yolo_format lies in [0, 1], whatever the box: partly or wholly
\* outside the canvas, or with xmax < xmin.
C12_YoloValuesInUnitInterval ==
    (call.fn = "convert_to_yolo_format" /\ ret # Pending) =>
        \A v \in {ret[1].x_center, ret[1].y_center, ret[1].width, ret[1].height} :
            /\ v[2] > 0
            /\ 0 <= v[1]
            /\ v[1] <= v[2]

\* a box right of the canvas and turned over in x was converted: its centre
\* was cut to 1 and its width to 0
C12_Witness ==
    /\ call.fn = "convert_to_yolo_format"
    /\ ret # Pending
    /\ call.box[1] = TargetSize * Q + 80000
    /\ call.box[3] = TargetSize * Q
    /\ ret[1].x_center[1] = ret[1].x_center[2]
    /\ ret[1].width[1] = 0

\* the objects whose label is a key of label_to_id, in the order of the list
KnownObjects(objs, label_to_id) ==
    SelectSeq(objs, LAMBDA o : o.label \in DOMAIN label_to_id)

UnknownObjects(objs, label_to_id) ==
    SelectSeq(objs, LAMBDA o : o.label \notin DOMAIN label_to_id)

\* C13: create_yolo_annotation returns exactly one record for each object whose
\* label is a key of label_to_id, in the order of the input list; an object
\* with an unknown label gives no record and one diagnostic, and the objects
\* after it are encoded as if it were not there.
C13_OneLinePerKnownObjectInOrder ==
    (call.fn = "create_yolo_annotation" /\ ret # Pending) =>
        LET known == KnownObjects(call.objects, call.label_to_id)
            unknown == UnknownObjects(call.objects, call.label_to_id)
        IN  /\ Len(ret[1]) = Len(known)
            /\ \A i \in 1..Len(known) :
                  ret[1][i] = YoloLine(known[i], call.image_width, call.image_height,
                                       call.label_to_id[known[i].label])
            /\ Len(diagnostics) = Len(unknown)
            /\ \A i \in 1..Len(unknown) : diagnostics[i].label = unknown[i].label

\* an object with an unknown label stood between two known ones: two records
\* came out, in the order of the list, and one diagnostic
C13_Witness ==
    /\ call.fn = "create_yolo_annotation"
    /\ ret # Pending
    /\ Len(call.objects) = 3
    /\ call.objects[1].label = "maki_roll"
    /\ call.objects[2].label = "sushi_cat"
    /\ call.objects[3].label = "wasabi"
    /\ Len(ret[1]) = 2
    /\ ret[1][1].class_id = 9
    /\ ret[1][2].class_id = 3
    /\ Len(diagnostics) = 1

\* 0 <= xmin < xmax <= W and 0 <= ymin < ymax <= H, W and H in pixels
InsideCanvas(obj, W, H) ==
    /\ 0 <= obj.xmin /\ obj.xmin < obj.xmax /\ obj.xmax <= W * Q
    /\ 0 <= obj.ymin /\ obj.ymin < obj.ymax /\ obj.ymax <= H * Q

\* centre c and size s, in 1/100000 of a side of len pixels, put the low
\* (sign -1) or high (sign 1) edge less than one pixel from coord (1/Q pixel):
\* |(c + sign * s / 2) * len - coord / Q| < 1, times 200000
EdgeWithinOnePixel(c, s, sign, len, coord) ==
    /\ (2 * c + sign * s) * len - 200 * coord < 200000
    /\ 200 * coord - (2 * c + sign * s) * len < 200000

\* C14: a box inside the canvas, encoded to a record with 5 decimals and
\* decoded as ((xc - w/2) * W, (yc - h/2) * H, (xc + w/2) * W, (yc + h/2) * H),
\* comes back with each coordinate less than one pixel from the original.
C14_RoundTripWithinOnePixel ==
    (call.fn = "create_yolo_annotation" /\ ret # Pending) =>
        LET known == KnownObjects(call.objects, call.label_to_id)
        IN  \A i \in 1..Len(known) :
                InsideCanvas(known[i], call.image_width, call.image_height) =>
                    /\ EdgeWithinOnePixel(ret[1][i].x_center, ret[1][i].width, -1,
                                          call.image_width, known[i].xmin)
                    /\ EdgeWithinOnePixel(ret[1][i].x_center, ret[1][i].width, 1,
                                          call.image_width, known[i].xmax)
                    /\ EdgeWithinOnePixel(ret[1][i].y_center, ret[1][i].height, -1,
                                          call.image_height, known[i].ymin)
                    /\ EdgeWithinOnePixel(ret[1][i].y_center, ret[1][i].height, 1,
                                          call.image_height, known[i].ymax)

\* a box with coordinates that are not whole pixels nor whole 1/100000 of the
\* canvas was encoded: 0.69940 0.52520 0.59234 0.24234
C14_Witness ==
    /\ call.fn = "create_yolo_annotation"
    /\ ret # Pending
    /\ call.objects = << Object("egg_nigiri", 250000, 250500, 617250, 400750) >>
    /\ ret[1] = << [class_id |-> 0, x_center |-> 69940, y_center |-> 52520,
                    width |-> 59234, height |-> 24234] >>

\* C15: the transform with scale_factor 1, angle 0 and no perspective warp
\* returns a sprite of the input's width and height whose boxes have the
\* input boxes' coordinates, box by box.
C15_IdentityTransformKeepsSizeAndBoxes ==
    (/\ call.fn = "apply_transformations" /\ ret # Pending
     /\ call.scale_factor = SfDen /\ call.angle = Angle0 /\ ~call.warp.on) =>
        /\ ret[1].width = call.card.width
        /\ ret[1].height = call.card.height
        /\ ret[1].image.w = call.card.width
        /\ ret[1].image.h = call.card.height
        /\ Len(ret[1].bounding_boxes) = Len(call.card.bounding_boxes)
        /\ \A i \in 1..Len(call.card.bounding_boxes) :
              /\ ret[1].bounding_boxes[i].label = call.card.bounding_boxes[i].label
              /\ ret[1].bounding_boxes[i].xmin = call.card.bounding_boxes[i].xmin * Q
              /\ ret[1].bounding_boxes[i].ymin = call.card.bounding_boxes[i].ymin * Q
              /\ ret[1].bounding_boxes[i].xmax = call.card.bounding_boxes[i].xmax * Q
              /\ ret[1].bounding_boxes[i].ymax = call.card.bounding_boxes[i].ymax * Q

\* the 4 x 2 sprite went through the transform with scale 1, angle 0, no warp
C15_Witness ==
    /\ call.fn = "apply_transformations"
    /\ ret # Pending
    /\ call.card.label = "pudding"
    /\ call.scale_factor = SfDen
    /\ call.angle = Angle0
    /\ ~call.warp.on
    /\ ret[1].width = 4
    /\ ret[1].bounding_boxes[1].xmax = 3 * Q

\* C16: apply_transformations never changes its input sprite: whatever
\* transforms the sprites of the pool have been through, the pool holds each
\* sprite's pixel buffer, width, height, label and box coordinates as loaded.
C16_PoolSpritesUnchanged == cards = Pool

\* the two-box sprite was drawn, transformed and blended twice in one image
C16_Witness ==
    /\ pc = "done"
    /\ blends = 2
    /\ Len(objects) = 4
    /\ cards = Pool

\* C17: when the loaded sprite pool or the loaded background pool is empty, a
\* run of generate_dataset prints the error for that pool, writes no image, no
\* label file and no data.yaml, and returns 0.
C17_EmptyPoolAbortsRun ==
    (call.fn = "generate_dataset" /\ gd_pc # "start"
        /\ (cards = <<>> \/ backgrounds = <<>>))
    => /\ gd_pc = "returned"
       /\ ret = <<0>>
       /\ files = <<>>
       /\ manifest = 0
       /\ image_index = 0
       /\ diagnostics = <<[msg |-> "error: no " \o
                              (IF cards = <<>> THEN "cards" ELSE "backgrounds"),
                           n |-> 0]>>

\* a run over a non-empty sprite pool and an empty background pool has returned
C17_Witness ==
    /\ call.fn = "generate_dataset"
    /\ cards # <<>>
    /\ backgrounds = <<>>
    /\ call.config["total_images"] = TotalImages
    /\ gd_pc = "returned"
    /\ ret = <<0>>

\* the call of load_card_images has returned
LoaderReturned == call.fn = "load_card_images" /\ ret # Pending

\* the file's name passes the loader's tests and its annotation file is read
LinesRead(file) ==
    /\ file.has_txt
    /\ file.readable
    /\ valid_class_found(normalize_filename(file.base_name, call.group_variations),
                         call.classes)

\* a line whose field count is not five, or with a field that is no number
Malformed(parts) ==
    \/ Len(parts) # 5
    \/ \E k \in 1..Len(parts) : parts[k].kind = "text"

\* five numeric fields, the first an index of the vocabulary
WellFormed(parts) ==
    /\ Len(parts) = 5
    /\ parts[1].kind = "int"
    /\ parts[1].v \in 0..(Len(call.classes) - 1)
    /\ \A k \in 2..5 : parts[k].kind \in {"int", "dec"}

\* a message was printed about line n of the file (n = 0: about the file)
Reported(file, n) ==
    \E d \in 1..Len(diagnostics) :
        /\ diagnostics[d].file = Join(file.base_name)
        /\ diagnostics[d].line = n

\* the box the code computes for a well-formed line
BoxOfLine(file, parts) ==
    LineBox(CLASSES[parts[1].v + 1], FloatOf(parts[2]), FloatOf(parts[3]),
            FloatOf(parts[4]), FloatOf(parts[5]), file.width, file.height)

\* C18: every malformed line of an annotation file that is read (field count
\* not five, or a non-numeric value) has a diagnostic of its own, and every
\* well-formed line of the file, before or after it, still gives its box.
C18_MalformedLineReportedOthersKept ==
    LoaderReturned =>
        \A f \in 1..Len(call.files) :
            LET file == call.files[f]
            IN  LinesRead(file) =>
                  /\ \A n \in 1..Len(file.lines) :
                        Malformed(file.lines[n]) => Reported(file, n)
                  /\ (Len(call.files) = 1 /\ \E n \in 1..Len(file.lines) :
                                                 WellFormed(file.lines[n]))
                        => /\ Len(ret[1]) = 1
                           /\ \A n \in 1..Len(file.lines) :
                                 WellFormed(file.lines[n]) =>
                                    \E b \in 1..Len(ret[1][1].bounding_boxes) :
                                        ret[1][1].bounding_boxes[b]
                                            = BoxOfLine(file, file.lines[n])

\* the file-name label is a class of the vocabulary
LabelInVocabulary(file) ==
    \E c \in 1..Len(call.classes) :
        normalize_filename(file.base_name, call.group_variations) = call.classes[c]

\* five fields, the first an integer that is no index of the vocabulary
ClassIdOutOfVocabulary(parts) ==
    /\ Len(parts) = 5
    /\ parts[1].kind = "int"
    /\ parts[1].v \notin 0..(Len(call.classes) - 1)

\* C19: a file whose label is not a class of the vocabulary adds no sprite to
\* the pool and is reported; a line whose class_id is no index of the
\* vocabulary (negative ids included) adds no box and is reported.
C19_UnknownLabelsExcludedAndReported ==
    LoaderReturned =>
        \A f \in 1..Len(call.files) :
            LET file == call.files[f]
                label == Join(normalize_filename(file.base_name, call.group_variations))
            IN  /\ ~LabelInVocabulary(file) =>
                      /\ \A c \in 1..Len(ret[1]) : ret[1][c].label # label
                      /\ Reported(file, 0)
                /\ LinesRead(file) =>
                      \A n \in 1..Len(file.lines) :
                          ClassIdOutOfVocabulary(file.lines[n]) => Reported(file, n)
                /\ (LinesRead(file) /\ Len(call.files) = 1 /\ Len(ret[1]) = 1) =>
                      Len(ret[1][1].bounding_boxes)
                          <= Cardinality({n \in 1..Len(file.lines) :
                                 /\ Len(file.lines[n]) = 5
                                 /\ ~ClassIdOutOfVocabulary(file.lines[n])})

\* C20: every box of every sprite of the pool load_card_images returns has
\* xmin < xmax and ymin < ymax (all values of the lines drawn are in [0, 1]).
C20_LoadedBoxesHavePositiveExtent ==
    LoaderReturned =>
        \A c \in 1..Len(ret[1]) :
            \A b \in 1..Len(ret[1][c].bounding_boxes) :
                LET box == ret[1][c].bounding_boxes[b]
                IN  box.xmin < box.xmax /\ box.ymin < box.ymax

\* a run of generate_dataset over non-empty pools with the given configuration
RunWith(config) ==
    /\ call.fn = "generate_dataset"
    /\ call.config = config
    /\ cards # <<>>
    /\ backgrounds # <<>>

\* the partition an image index belongs to
PartitionOf(config, index) ==
    IF index < num_train(config) THEN "train"
    ELSE IF index < num_train(config) + num_valid(config) THEN "valid"
    ELSE "test"

\* the files written so far are those of the images 0, 1, 2, ... in order,
\* each once, each in the directories of its partition
FilesInOrder(config) ==
    /\ Len(files) = 2 * image_index
    /\ \A k \in 1..Len(files) :
          /\ files[k].image_index = (k - 1) \div 2
          /\ files[k].kind = (IF k % 2 = 1 THEN "image" ELSE "label")
          /\ files[k].dir = PartitionOf(config, (k - 1) \div 2)

\* the run goes through train, valid and test in order, writes data.yaml once,
\* after the last image, and returns total_images without raising
RunCompletes(config) ==
    /\ num_train(config) + num_valid(config) + num_test(config) = config["total_images"]
    /\ FilesInOrder(config)
    /\ image_index <= config["total_images"]
    /\ manifest > 0 => image_index = config["total_images"]
    /\ gd_pc # "raised"
    /\ gd_pc = "returned" =>
          /\ manifest = 1
          /\ image_index = config["total_images"]
          /\ ret = <<config["total_images"]>>

\* C21: with non-empty pools and the default configuration, generate_dataset
\* generates the train, then the validation, then the test images, every
\* index 0..total_images-1 once, then writes data.yaml exactly once and
\* returns total_images without raising.
C21_DefaultRunWritesManifestAndReturns ==
    RunWith(DATASET_CONFIG) => RunCompletes(DATASET_CONFIG)

\* p is an initial part of q
IsPrefix(p, q) == Len(p) <= Len(q) /\ SubSeq(q, 1, Len(p)) = p

\* C22: within one image the canvas is written only by an accepted placement:
\* a blend happens in an attempt whose offset passed the footprint test and
\* the accumulated-box test against the whole list of boxes recorded so far in
\* this image, at that offset; a card is blended at most once, and no offset
\* is drawn for a card after its blend.
C22_CanvasWrittenOnlyByAcceptedPlacement ==
    [][/\ ((pc \in {"card", "attempt"} /\ background' # background)
              \/ blends' # blends) =>
             /\ pc = "attempt"
             /\ outcome # "placed"
             /\ outcome' = "placed"
             /\ total_attempts' = total_attempts + 1
             /\ prev_placed' = placed_boxes
             /\ ~NewCoversOld'
             /\ background' = overlay_card(background, transformed,
                                           <<x_off', y_off'>>).background
             /\ overlay_card(background, transformed, <<x_off', y_off'>>).x_offset = x_off'
             /\ overlay_card(background, transformed, <<x_off', y_off'>>).y_offset = y_off'
             /\ blends' = blends + 1
             /\ card_index' = card_index + 1
             /\ pc' = "card"
       /\ pc \in {"card", "attempt"} => IsPrefix(placed_boxes, placed_boxes')
       /\ total_attempts' # total_attempts =>
             /\ pc = "attempt"
             /\ outcome # "placed"
             /\ transformed' = transformed
       /\ blends' <= card_index']_vars

\* the second sprite of an image was blended over a non-empty list of placed
\* boxes after an offset had been rejected
C22_Witness ==
    /\ outcome = "placed"
    /\ blends = 2
    /\ prev_placed # <<>>
    /\ total_attempts > 2

\* the state of the pools and of the image in hand that C23 constrains
ImageStartsFresh ==
    /\ cards = Pool
    /\ backgrounds = BackgroundPoolOfTwo
    /\ (pc \in {"card", "attempt"} /\ blends = 0) => placed_boxes = <<>>
    /\ pc = "count" => \E b \in 1..Len(BackgroundPoolOfTwo) :
                           background = BackgroundPoolOfTwo[b]

\* C23: over a sequence of images, each image starts from an empty list of
\* placed boxes and a copy of a pool background as the pool holds it, so that
\* the first offset drawn in an image is accepted whatever earlier images
\* placed; the pool's backgrounds, the pool's sprites, and, within an image,
\* the mapping of area targets, are never changed.
C23_ImagesStartFreshPoolsUnchanged ==
    [][/\ ImageStartsFresh
       /\ ImageStartsFresh'
       /\ pc = "count" => (placed_boxes' = <<>> /\ objects' = <<>>)
       /\ (pc = "attempt" /\ blends = 0) =>
              (prev_placed' = <<>> /\ outcome' = "placed")
       /\ pc \in {"count", "card", "attempt", "done"} =>
              label_base_percent' = label_base_percent]_vars

\* the second image's first sprite was blended while the boxes and the canvas
\* of the first image were left behind
C23_Witness ==
    /\ image_index = 1
    /\ Len(files) = 2
    /\ outcome = "placed"
    /\ blends = 1
    /\ num_cards = 2
    /\ background # backgrounds[1]
    /\ background # backgrounds[2]

\* the indices, in order, of the boxes of the sprite in hand that have
\* positive width and height at the offset of the latest attempt
ValidIndices ==
    LET n == Len(transformed.bounding_boxes)
        valid(idx) == /\ CandidateBoxes[idx][1] < CandidateBoxes[idx][3]
                      /\ CandidateBoxes[idx][2] < CandidateBoxes[idx][4]
    IN  SelectSeq([idx \in 1..n |-> idx], valid)

\* those boxes, moved to the offset, and their labels
ValidBoxes == [k \in 1..Len(ValidIndices) |-> CandidateBoxes[ValidIndices[k]]]

ValidLabels ==
    [k \in 1..Len(ValidIndices) |-> transformed.bounding_boxes[ValidIndices[k]].label]

\* the object the code records for a placed box and a label
ClippedObject(label, xb) ==
    [label |-> label,
     xmin |-> Max(0, xb[1]), ymin |-> Max(0, xb[2]),
     xmax |-> Min(background.w * Q, xb[3]), ymax |-> Min(background.h * Q, xb[4])]

\* the two lists go together: equal length, the i-th object the i-th placed
\* box clipped to the canvas
ListsGoTogether ==
    pc \in {"card", "attempt", "done"} =>
        /\ Len(objects) = Len(placed_boxes)
        /\ \A i \in 1..Len(objects) :
              objects[i] = ClippedObject(objects[i].label, placed_boxes[i])

\* every box of the pool sprite with this label has positive width and height
AllInputBoxesPositive(label) ==
    \A c \in 1..Len(cards) :
        cards[c].label = label =>
            \A b \in 1..Len(cards[c].bounding_boxes) :
                /\ cards[c].bounding_boxes[b].xmin < cards[c].bounding_boxes[b].xmax
                /\ cards[c].bounding_boxes[b].ymin < cards[c].bounding_boxes[b].ymax

\* C24: an accepted placement appends to placed_boxes and to objects together,
\* one entry for each box of the sprite that has positive width and height,
\* in box order and with that box's label; the lists have equal length, the
\* i-th object is the i-th placed box clipped to the canvas, and a blended
\* sprite whose input boxes all have positive extent adds at least one object.
C24_PlacedAndOutputListsGoTogether ==
    [][/\ ListsGoTogether
       /\ ListsGoTogether'
       /\ blends' = blends => (placed_boxes' = placed_boxes /\ objects' = objects)
       /\ blends' # blends =>
             LET added == Len(placed_boxes') - Len(placed_boxes)
             IN  /\ IsPrefix(placed_boxes, placed_boxes')
                 /\ IsPrefix(objects, objects')
                 /\ added = Len(ValidBoxes')
                 /\ \A k \in 1..added :
                       /\ placed_boxes'[Len(placed_boxes) + k] = ValidBoxes'[k]
                       /\ objects'[Len(objects) + k].label = ValidLabels'[k]
                 /\ AllInputBoxesPositive(transformed'.label) => added >= 1]_vars

\* the sprite with a box of no width was blended after another sprite: one of
\* its two boxes was recorded
C24_Witness ==
    /\ outcome = "placed"
    /\ blends = 2
    /\ Len(transformed.bounding_boxes) = 2
    /\ Len(ValidIndices) = 1
    /\ Len(placed_boxes) = Len(prev_placed) + 1
    /\ Len(objects) = Len(placed_boxes)

\* the part two boxes share, as a box (of no area when they do not meet)
InterBox(a, b) ==
    <<Max(a[1], b[1]), Max(a[2], b[2]), Min(a[3], b[3]), Min(a[4], b[4])>>

\* the area covered by the boxes of bs together, by inclusion and exclusion
RECURSIVE UnionArea(_)
UnionArea(bs) ==
    IF bs = <<>> THEN 0
    ELSE LET rest == Tail(bs)
             shared == [k \in 1..Len(rest) |-> InterBox(Head(bs), rest[k])]
         IN  BoxArea(Head(bs)) + UnionArea(rest) - UnionArea(shared)

\* the footprints of the sprites blended after placed box j, cut to that box
LaterFootprintsOn(j) ==
    LET later == SelectSeq(footprints, LAMBDA f : f.found >= j)
    IN  [k \in 1..Len(later) |-> InterBox(later[k].full_box, placed_boxes[j])]

\* C25: after any sequence of accepted placements in one image, for every
\* placed box the part of its area covered by the footprints of all sprites
\* placed after it, taken together, is at most 40% of its area.
C25_NoPlacedBoxHiddenByLaterCards ==
    pc \in {"card", "attempt", "done"} =>
        \A j \in 1..Len(placed_boxes) :
            BoxArea(placed_boxes[j]) > 0 =>
                ~MoreThan40Pct(UnionArea(LaterFootprintsOn(j)), placed_boxes[j])

\* what the code does keep: each later footprint alone covers at most 40% of
\* a box placed before it
EachLaterFootprintAlone ==
    pc \in {"card", "attempt", "done"} =>
        \A j \in 1..Len(placed_boxes) :
            \A k \in 1..Len(LaterFootprintsOn(j)) :
                BoxArea(placed_boxes[j]) > 0 =>
                    ~MoreThan40Pct(BoxArea(LaterFootprintsOn(j)[k]), placed_boxes[j])

====
